---- MODULE Spec2Model ----
(***************************************************************************)
(* Entity normalization and reconciliation pipeline of the QGIS features   *)
(* analyzer: extract_companies_developers, find_fuzzy_clusters and         *)
(* normalize_developer_name.                                               *)
(*                                                                         *)
(* A Python str is modelled as a sequence of one-character strings, so     *)
(* that slicing, containment, case folding and the regular expressions of  *)
(* the source are computed character by character.                         *)
(***************************************************************************)
EXTENDS Integers, Sequences, FiniteSets, TLC

VARIABLES
    mode,                        \* which script is running
    rows, row_i, epc,            \* extract_companies_developers: input rows, loop position, phase
    company_keys,                \* insertion order of the company_developers dict
    company_developers,          \* company -> set of developers
    company_developer_features,  \* (company, developer) -> count of features
    emit_queue, csv_data,        \* sorted companies still to emit, rows of the output CSV
    erun, prev_csv,              \* run number, output of the previous run
    names, threshold, cpc,       \* find_fuzzy_clusters: arguments, phase
    unique_names, name_counts,   \* first-seen unique names, Counter
    name_mapping, processed,     \* alias -> canonical, names already assigned
    ci, cluster_log,             \* outer loop index, clusters built so far
    crun, prev_mapping,          \* run number, mapping of the previous run
    nd_name, nd_out, nd_again, npc,  \* normalize_developer_name: input, result, result on the result, phase
    input_csv, apc,              \* aggregate_data: rows of the input CSV, phase
    all_data, companies,         \* rows read, company -> developers and total_features
    company_order,               \* insertion order of the companies dict
    companies_aggregated,        \* rows of companies_aggregated.csv
    developer_totals,            \* developer -> companies and total_features
    developer_order,             \* insertion order of the developer_totals dict
    top_developers,              \* rows of top_developers.csv
    sorted_companies, sorted_by_devs, sorted_devs,   \* the rankings of the summary
    multi_company,               \* developers linked to more than one company
    team_files, mapping_csv, vpc,    \* validate_mappings: roster files, mapping CSV, phase
    reference_teams,             \* company -> roster names
    current_mapping, mapping_order,  \* company -> (developer, features) list, insertion order
    vi,                          \* position of the loop over current_mapping
    validated, suggestions,      \* the buckets of the report
    not_in_reference, missing_from_mapping,
    call_text, calls_done,       \* a function called on one text: the argument, the calls made
    company_out,                 \* normalize_company_name: result
    person_out, link_out,        \* extract_developer_name result, link of the extract loop body
    features_out, zips_out,      \* normalize_developer_name: scripts copy, extract_features_from_zips copy
    raw_rows, rpc,               \* normalize_developers: developed_by of the input rows, phase
    clean_names, fuzzy_mapping,  \* clean names, mapping of find_fuzzy_clusters
    out_rows, rw_i,              \* developed_by of the rows as rewritten, loop position
    changelog_urls, dpc,         \* download main: URLs of changelog_urls.txt, phase
    download_dir,                     \* destination -> "absent", "partial" or "complete"
    url_i, drun,                 \* loop position, run number
    total_attempts, successful_downloads, skipped

varsExtract == <<rows, row_i, epc, company_keys, company_developers,
                 company_developer_features, emit_queue, csv_data, erun, prev_csv>>
varsCluster == <<names, threshold, cpc, unique_names, name_counts, name_mapping,
                 processed, ci, cluster_log, crun, prev_mapping>>
varsNormalize == <<nd_name, nd_out, nd_again, npc>>
varsAggregate == <<input_csv, apc, all_data, companies, company_order, companies_aggregated,
                   developer_totals, developer_order, top_developers,
                   sorted_companies, sorted_by_devs, sorted_devs, multi_company>>
varsValidate == <<team_files, mapping_csv, vpc, reference_teams, current_mapping,
                  mapping_order, vi, validated, suggestions, not_in_reference,
                  missing_from_mapping>>
varsCalls == <<call_text, calls_done, company_out, person_out, link_out,
               features_out, zips_out>>
varsReconcile == <<raw_rows, rpc, clean_names, fuzzy_mapping, out_rows, rw_i>>
varsDownload == <<changelog_urls, dpc, download_dir, url_i, drun, total_attempts,
                  successful_downloads, skipped>>
vars == <<mode, varsExtract, varsCluster, varsNormalize, varsAggregate, varsValidate,
          varsCalls, varsReconcile, varsDownload>>

(***************************************************************************)
(* Bounds of the model.                                                    *)
(***************************************************************************)
MaxRows == 2
MaxNames == 3
MaxTextLen == 3
MaxLinks == 3
MaxMapped == 2
MaxRoster == 2
MaxRaw == 3
MaxUrls == 2
MaxRuns == 2

(***************************************************************************)
(* Python str primitives.                                                  *)
(***************************************************************************)
\* ord(c) for every character the model uses.
CodePoint ==
    (" " :> 32) @@ ("&" :> 38) @@ ("'" :> 39) @@ ("(" :> 40) @@ (")" :> 41) @@ ("*" :> 42) @@
    ("," :> 44) @@ ("-" :> 45) @@ ("." :> 46) @@ ("/" :> 47) @@ ("3" :> 51) @@ (":" :> 58) @@
    ("@" :> 64) @@ ("A" :> 65) @@ ("B" :> 66) @@ ("C" :> 67) @@ ("D" :> 68) @@ ("E" :> 69) @@
    ("F" :> 70) @@ ("G" :> 71) @@ ("H" :> 72) @@ ("I" :> 73) @@ ("J" :> 74) @@ ("K" :> 75) @@
    ("L" :> 76) @@ ("M" :> 77) @@ ("N" :> 78) @@ ("O" :> 79) @@ ("P" :> 80) @@ ("Q" :> 81) @@
    ("R" :> 82) @@ ("S" :> 83) @@ ("T" :> 84) @@ ("U" :> 85) @@ ("W" :> 87) @@ ("Z" :> 90) @@
    ("a" :> 97) @@ ("b" :> 98) @@ ("c" :> 99) @@ ("d" :> 100) @@ ("e" :> 101) @@ ("f" :> 102) @@
    ("g" :> 103) @@ ("h" :> 104) @@ ("i" :> 105) @@ ("j" :> 106) @@ ("k" :> 107) @@ ("l" :> 108) @@
    ("m" :> 109) @@ ("n" :> 110) @@ ("o" :> 111) @@ ("p" :> 112) @@ ("q" :> 113) @@ ("r" :> 114) @@
    ("s" :> 115) @@ ("t" :> 116) @@ ("u" :> 117) @@ ("v" :> 118) @@ ("w" :> 119) @@ ("x" :> 120) @@
    ("y" :> 121) @@ ("z" :> 122) @@ ("U+00A5" :> 165) @@ ("U+00A9" :> 169) @@ ("U+00C9" :> 201) @@ ("U+00E1" :> 225) @@
    ("U+00E9" :> 233) @@ ("U+00EF" :> 239) @@ ("U+00FC" :> 252) @@ ("U+0161" :> 353) @@ ("U+221A" :> 8730)

\* c.lower() for the characters it changes.
LowerOf ==
    ("A" :> "a") @@ ("B" :> "b") @@ ("C" :> "c") @@ ("D" :> "d") @@ ("E" :> "e") @@ ("F" :> "f") @@
    ("G" :> "g") @@ ("H" :> "h") @@ ("I" :> "i") @@ ("J" :> "j") @@ ("K" :> "k") @@ ("L" :> "l") @@
    ("M" :> "m") @@ ("N" :> "n") @@ ("O" :> "o") @@ ("P" :> "p") @@ ("Q" :> "q") @@ ("R" :> "r") @@
    ("S" :> "s") @@ ("T" :> "t") @@ ("U" :> "u") @@ ("W" :> "w") @@ ("Z" :> "z") @@ ("U+00C9" :> "U+00E9")

Whitespace == {" ", "\t"}

EmptyStr == <<>>

Min(S) == CHOOSE x \in S : \A y \in S : x <= y
Max(S) == CHOOSE x \in S : \A y \in S : x >= y

LowerChar(c) == IF c \in DOMAIN LowerOf THEN LowerOf[c] ELSE c
Lower(s) == [i \in 1..Len(s) |-> LowerChar(s[i])]

\* s[i:] as a slice, with 1-based i.
From(s, i) == SubSeq(s, i, Len(s))

\* str.strip(chars)
StripChars(s, chars) ==
    LET keep == {i \in 1..Len(s) : s[i] \notin chars}
    IN  IF keep = {} THEN EmptyStr ELSE SubSeq(s, Min(keep), Max(keep))
Strip(s) == StripChars(s, Whitespace)

\* str.rstrip(chars)
RStripChars(s, chars) ==
    LET keep == {i \in 1..Len(s) : s[i] \notin chars}
    IN  IF keep = {} THEN EmptyStr ELSE SubSeq(s, 1, Max(keep))

MatchAt(s, i, sub) ==
    /\ i >= 1
    /\ i + Len(sub) - 1 <= Len(s)
    /\ SubSeq(s, i, i + Len(sub) - 1) = sub

\* sub in s
Contains(s, sub) == \E i \in 1..(Len(s) - Len(sub) + 1) : MatchAt(s, i, sub)
StartsWith(s, prefix) == MatchAt(s, 1, prefix)

\* s.find(sub, i): first index >= i where sub occurs, 0 when there is none.
Find(s, sub, i) ==
    LET at == {j \in i..(Len(s) - Len(sub) + 1) : MatchAt(s, j, sub)}
    IN  IF at = {} THEN 0 ELSE Min(at)

\* s.replace(c, '') for a single character c.
RemoveChar(s, c) == SelectSeq(s, LAMBDA x : x # c)

\* Number of whitespace characters at s[i], s[i+1], ... (the greedy \s*).
WsRun(s, i) ==
    LET stop == {j \in i..Len(s) : s[j] \notin Whitespace}
    IN  IF stop = {} THEN Len(s) + 1 - i ELSE Min(stop) - i

\* Start of the whitespace run that ends right before index p.
WsRunStart(s, p) ==
    LET solid == {j \in 1..(p - 1) : s[j] \notin Whitespace}
    IN  IF solid = {} THEN 1 ELSE Max(solid) + 1

\* str.split(sep) for a separator that occurs at most once without overlap:
\* the number of parts (3 stands for "three or more") and the first two.
SplitParts(s, sep) ==
    LET p == Find(s, sep, 1)
        q == IF p = 0 THEN 0 ELSE Find(s, sep, p + Len(sep))
    IN  IF p = 0 THEN [n |-> 1, first |-> s, second |-> EmptyStr]
        ELSE [n |-> IF q = 0 THEN 2 ELSE 3,
              first |-> SubSeq(s, 1, p - 1),
              second |-> IF q = 0 THEN From(s, p + Len(sep))
                         ELSE SubSeq(s, p + Len(sep), q - 1)]

\* Lexicographic order of str by code point, as sorted() uses it.
RECURSIVE StrLess(_, _)
StrLess(a, b) ==
    IF b = EmptyStr THEN FALSE
    ELSE IF a = EmptyStr THEN TRUE
    ELSE IF CodePoint[Head(a)] # CodePoint[Head(b)] THEN CodePoint[Head(a)] < CodePoint[Head(b)]
    ELSE StrLess(Tail(a), Tail(b))

\* sorted(seq) for a sequence of distinct str: insertion into a sorted prefix.
RECURSIVE InsertSorted(_, _)
InsertSorted(x, seq) ==
    IF seq = <<>> THEN <<x>>
    ELSE IF StrLess(x, Head(seq)) THEN <<x>> \o seq
    ELSE <<Head(seq)>> \o InsertSorted(x, Tail(seq))

\* Mutant of sorted: the sequence is left in the order it was iterated.
Unsorted(seq) == seq

RECURSIVE sorted(_)
sorted(seq) ==
    IF seq = <<>> THEN <<>> ELSE InsertSorted(Head(seq), sorted(Tail(seq)))

\* Every order in which a set can be iterated.
Orders(S) ==
    {f \in [1..Cardinality(S) -> S] : \A i, j \in DOMAIN f : i # j => f[i] # f[j]}

(***************************************************************************)
(* Regular expressions of the source, each computed as re.sub / re.search  *)
(* computes it: leftmost match first, non-overlapping, left to right.      *)
(***************************************************************************)
\* re.sub(r'\s*\(.*?\)\s*', '', s)
RECURSIVE SubParenContent(_)
SubParenContent(s) ==
    IF s = EmptyStr THEN s
    ELSE LET open == 1 + WsRun(s, 1)
             close == IF open <= Len(s) /\ s[open] = "(" THEN Find(s, <<")">>, open + 1) ELSE 0
         IN  IF close # 0
             THEN SubParenContent(From(s, close + 1 + WsRun(s, close + 1)))
             ELSE <<Head(s)>> \o SubParenContent(Tail(s))

\* re.sub(r'\s*@.*$', '', s)
SubAtSuffix(s) ==
    LET at == Find(s, <<"@">>, 1)
    IN  IF at = 0 THEN s ELSE SubSeq(s, 1, WsRunStart(s, at) - 1)

\* re.sub(r'\s*\*\*\s*', '', s)
RECURSIVE SubBold(_)
SubBold(s) ==
    IF s = EmptyStr THEN s
    ELSE LET star == 1 + WsRun(s, 1)
         IN  IF MatchAt(s, star, <<"*", "*">>)
             THEN SubBold(From(s, star + 2 + WsRun(s, star + 2)))
             ELSE <<Head(s)>> \o SubBold(Tail(s))

\* re.sub(r'\s+', ' ', s)
RECURSIVE SubSpaces(_)
SubSpaces(s) ==
    IF s = EmptyStr THEN s
    ELSE IF Head(s) \in Whitespace THEN <<" ">> \o SubSpaces(From(s, 1 + WsRun(s, 1)))
    ELSE <<Head(s)>> \o SubSpaces(Tail(s))

\* re.search(r'^(.+?)\s*\(([^)]+)\)$', s): whether it matches, group(1), group(2).
SearchNameParen(s) ==
    LET n == Len(s)
        opens == {q \in 2..(n - 2) : s[q] = "(" /\ \A j \in (q + 1)..(n - 1) : s[j] # ")"}
    IN  IF n = 0 \/ s[n] # ")" \/ opens = {}
        THEN [matched |-> FALSE, g1 |-> EmptyStr, g2 |-> EmptyStr]
        ELSE LET q == Min(opens)
                 e == Max({1, WsRunStart(s, q) - 1})
             IN  [matched |-> TRUE, g1 |-> SubSeq(s, 1, e), g2 |-> SubSeq(s, q + 1, n - 1)]

(***************************************************************************)
(* extract_companies_developers.py                                         *)
(***************************************************************************)
NotSpecified == <<"N", "o", "t", " ", "s", "p", "e", "c", "i", "f", "i", "e", "d">>

\* The known variations and their canonical forms, as (key, value) pairs.
company_mappings == {
    <<<<"o", "p", "e", "n", "g", "i", "s", ".", "c", "h">>, <<"O", "P", "E", "N", "G", "I", "S", ".", "c", "h">>>>,
    <<<<"o", "p", "e", "n", "g", "i", "s">>, <<"O", "P", "E", "N", "G", "I", "S", ".", "c", "h">>>>,
    <<<<"o", "p", "e", "n", "g", "i", "s", "c", "h">>, <<"O", "P", "E", "N", "G", "I", "S", ".", "c", "h">>>>,
    <<<<"o", "p", "e", "n", "g", "i", "s", ".", "c", "h", " ", "g", "m", "b", "h">>, <<"O", "P", "E", "N", "G", "I", "S", ".", "c", "h">>>>,
    <<<<"l", "u", "t", "r", "a", " ", "c", "o", "n", "s", "u", "l", "t", "i", "n", "g">>, <<"L", "u", "t", "r", "a", " ", "C", "o", "n", "s", "u", "l", "t", "i", "n", "g">>>>,
    <<<<"l", "u", "t", "r", "a", "c", "o", "n", "s", "u", "l", "t", "i", "n", "g">>, <<"L", "u", "t", "r", "a", " ", "C", "o", "n", "s", "u", "l", "t", "i", "n", "g">>>>,
    <<<<"l", "u", "t", "r", "a">>, <<"L", "u", "t", "r", "a", " ", "C", "o", "n", "s", "u", "l", "t", "i", "n", "g">>>>,
    <<<<"o", "s", "l", "a", "n", "d", "i", "a">>, <<"O", "s", "l", "a", "n", "d", "i", "a">>>>,
    <<<<"o", "s", "l", "a", "n", "d", "i", "a", " ", "-">>, <<"O", "s", "l", "a", "n", "d", "i", "a">>>>,
    <<<<"n", "o", "r", "t", "h", " ", "r", "o", "a", "d">>, <<"N", "o", "r", "t", "h", " ", "R", "o", "a", "d">>>>,
    <<<<"n", "o", "r", "t", "h", " ", "r", "o", "a", "d", " ", "c", "o", "n", "s", "u", "l", "t", "i", "n", "g">>, <<"N", "o", "r", "t", "h", " ", "R", "o", "a", "d">>>>,
    <<<<"k", "a", "r", "t", "o", "z", "a">>, <<"K", "a", "r", "t", "o", "z", "a">>>>,
    <<<<"f", "o", "r", " ", "k", "a", "r", "t", "o", "z", "a">>, <<"K", "a", "r", "t", "o", "z", "a">>>>,
    <<<<"f", "a", "u", "n", "a", "l", "i", "a">>, <<"F", "a", "u", "n", "a", "l", "i", "a">>>>,
    <<<<"3", "l", "i", "z">>, <<"3", "L", "i", "z">>>>,
    <<<<"3", "l", "i", "z", ".", "c", "o", "m">>, <<"3", "L", "i", "z">>>>,
    <<<<"q", "g", "i", "s", ".", "o", "r", "g", " ", "d", "o", "n", "o", "r", "s", " ", "a", "n", "d", " ", "s", "p", "o", "n", "s", "o", "r", "s">>, <<"Q", "G", "I", "S", ".", "O", "R", "G", " ", "d", "o", "n", "o", "r", "s", " ", "a", "n", "d", " ", "s", "p", "o", "n", "s", "o", "r", "s">>>>,
    <<<<"q", "g", "i", "s", ".", "o", "r", "g">>, <<"Q", "G", "I", "S", ".", "O", "R", "G">>>>,
    <<<<"q", "g", "i", "s", " ", "g", "r", "a", "n", "t", " ", "p", "r", "o", "g", "r", "a", "m">>, <<"Q", "G", "I", "S", " ", "G", "r", "a", "n", "t", " ", "P", "r", "o", "g", "r", "a", "m">>>>,
    <<<<"q", "g", "i", "s">>, <<"Q", "G", "I", "S">>>>,
    <<<<"i", "m", "h", "e", "r", "e", " ", "a", "s", "i", "a">>, <<"i", "M", "H", "e", "r", "e", " ", "A", "s", "i", "a">>>>,
    <<<<"i", "m", "h", "e", "r", "e", "-", "a", "s", "i", "a">>, <<"i", "M", "H", "e", "r", "e", " ", "A", "s", "i", "a">>>>,
    <<<<"q", "c", "o", "o", "p", "e", "r", "a", "t", "i", "v", "e">>, <<"Q", "C", "o", "o", "p", "e", "r", "a", "t", "i", "v", "e">>>>,
    <<<<"q", "c", "o", "o", "p", "e", "r", "a", "t", "i", "v", "e", " ", "/">>, <<"Q", "C", "o", "o", "p", "e", "r", "a", "t", "i", "v", "e">>>>,
    <<<<"i", "t", "o", "p", "e", "n", " ", "/", " ", "q", "c", "o", "o", "p", "e", "r", "a", "t", "i", "v", "e">>, <<"Q", "C", "o", "o", "p", "e", "r", "a", "t", "i", "v", "e">>>>,
    <<<<"s", "p", "a", "t", "i", "a", "l", "y", "s">>, <<"S", "p", "a", "t", "i", "a", "l", "y", "s">>>>,
    <<<<"s", "w", "i", "s", "s", " ", "q", "g", "i", "s", " ", "u", "s", "e", "r", " ", "g", "r", "o", "u", "p">>, <<"S", "w", "i", "s", "s", " ", "Q", "G", "I", "S", " ", "U", "s", "e", "r", " ", "G", "r", "o", "u", "p">>>>,
    <<<<"s", "w", "i", "s", "s", " ", "q", "g", "i", "s", " ", "u", "s", "e", "r", "-", "g", "r", "o", "u", "p">>, <<"S", "w", "i", "s", "s", " ", "Q", "G", "I", "S", " ", "U", "s", "e", "r", " ", "G", "r", "o", "u", "p">>>>,
    <<<<"t", "h", "e", " ", "s", "w", "i", "s", "s", " ", "q", "g", "i", "s", " ", "u", "s", "e", "r", " ", "g", "r", "o", "u", "p">>, <<"S", "w", "i", "s", "s", " ", "Q", "G", "I", "S", " ", "U", "s", "e", "r", " ", "G", "r", "o", "u", "p">>>>,
    <<<<"q", "g", "i", "s", " ", "s", "w", "i", "s", "s", " ", "u", "s", "e", "r", " ", "g", "r", "o", "u", "p">>, <<"S", "w", "i", "s", "s", " ", "Q", "G", "I", "S", " ", "U", "s", "e", "r", " ", "G", "r", "o", "u", "p">>>>,
    <<<<"b", "o", "r", "d", "e", "a", "u", "x", " ", "m", "e", "t", "r", "o", "p", "o", "l", "e">>, <<"B", "o", "r", "d", "e", "a", "u", "x", " ", "M", "U+221A", "U+00A9", "t", "r", "o", "p", "o", "l", "e">>>>,
    <<<<"b", "o", "r", "d", "e", "a", "u", "x", " ", "m", "U+221A", "U+00A9", "t", "r", "o", "p", "U+221A", "U+00A5", "l", "e">>, <<"B", "o", "r", "d", "e", "a", "u", "x", " ", "M", "U+221A", "U+00A9", "t", "r", "o", "p", "o", "l", "e">>>>,
    <<<<"b", "o", "r", "d", "e", "a", "u", "x", " ", "m", "U+221A", "U+00A9", "t", "r", "U+221A", "U+00A5", "p", "o", "l", "e">>, <<"B", "o", "r", "d", "e", "a", "u", "x", " ", "M", "U+221A", "U+00A9", "t", "r", "o", "p", "o", "l", "e">>>>,
    <<<<"m", "U+221A", "U+00A9", "t", "r", "o", "p", "U+221A", "U+00A5", "l", "e", " ", "d", "e", " ", "b", "o", "r", "d", "e", "a", "u", "x">>, <<"B", "o", "r", "d", "e", "a", "u", "x", " ", "M", "U+221A", "U+00A9", "t", "r", "o", "p", "o", "l", "e">>>>,
    <<<<"m", "U+221A", "U+00A9", "t", "r", "o", "p", "o", "l", "e", " ", "e", "u", "r", "o", "p", "U+221A", "U+00A9", "e", "n", "n", "e", " ", "d", "e", " ", "l", "i", "l", "l", "e">>, <<"M", "U+221A", "U+00A9", "t", "r", "o", "p", "o", "l", "e", " ", "E", "u", "r", "o", "p", "U+221A", "U+00A9", "e", "n", "n", "e", " ", "d", "e", " ", "L", "i", "l", "l", "e">>>>,
    <<<<"m", "U+221A", "U+00A9", "t", "r", "o", "p", "o", "l", "e", " ", "d", "e", " ", "l", "i", "l", "l", "e">>, <<"M", "U+221A", "U+00A9", "t", "r", "o", "p", "o", "l", "e", " ", "E", "u", "r", "o", "p", "U+221A", "U+00A9", "e", "n", "n", "e", " ", "d", "e", " ", "L", "i", "l", "l", "e">>>>,
    <<<<"l", "i", "l", "l", "e", " ", "m", "e", "t", "r", "o", "p", "o", "l", "e">>, <<"M", "U+221A", "U+00A9", "t", "r", "o", "p", "o", "l", "e", " ", "E", "u", "r", "o", "p", "U+221A", "U+00A9", "e", "n", "n", "e", " ", "d", "e", " ", "L", "i", "l", "l", "e">>>>,
    <<<<"m", "e", "t", "r", "o", "p", "o", "l", "e", " ", "d", "e", " ", "l", "i", "l", "l", "e">>, <<"M", "U+221A", "U+00A9", "t", "r", "o", "p", "o", "l", "e", " ", "E", "u", "r", "o", "p", "U+221A", "U+00A9", "e", "n", "n", "e", " ", "d", "e", " ", "L", "i", "l", "l", "e">>>>,
    <<<<"i", "f", "r", "e", "m", "e", "r">>, <<"I", "f", "r", "e", "m", "e", "r">>>>,
    <<<<"a", "r", "p", "a", " ", "p", "i", "e", "m", "o", "n", "t", "e">>, <<"A", "R", "P", "A", " ", "P", "i", "e", "m", "o", "n", "t", "e">>>>,
    <<<<"*", "*", "a", "r", "p", "a", " ", "p", "i", "e", "m", "o", "n", "t", "e", "*", "*">>, <<"A", "R", "P", "A", " ", "P", "i", "e", "m", "o", "n", "t", "e">>>>,
    <<<<"a", ".", "r", ".", "p", ".", "a", ".", " ", "p", "i", "e", "m", "o", "n", "t", "e">>, <<"A", "R", "P", "A", " ", "P", "i", "e", "m", "o", "n", "t", "e">>>>
}

\* Mutant of normalize_company_name: the table is looked up without lowercasing.
normalize_company_name_cased(company) ==
    IF company = EmptyStr \/ company = NotSpecified THEN company
    ELSE LET company_cased == Strip(SubBold(SubAtSuffix(SubParenContent(Strip(company)))))
             known == {kv \in company_mappings : kv[1] = company_cased}
         IN  IF known # {} THEN (CHOOSE kv \in known : TRUE)[2]
             ELSE SubSpaces(SubBold(Strip(company)))

\* normalize_company_name(company)
normalize_company_name(company) ==
    IF company = EmptyStr \/ company = NotSpecified THEN company
    ELSE LET company_lower == Strip(SubBold(SubAtSuffix(SubParenContent(Strip(Lower(company))))))
             known == {kv \in company_mappings : kv[1] = company_lower}
         IN  IF known # {} THEN (CHOOSE kv \in known : TRUE)[2]
             ELSE SubSpaces(SubBold(Strip(company)))

company_keywords ==
    << <<"l", "u", "t", "r", "a">>, <<"o", "p", "e", "n", "g", "i", "s">>, <<"o", "s", "l", "a", "n", "d", "i", "a">>, <<"k", "a", "r", "t", "o", "z", "a">>, <<"n", "o", "r", "t", "h", " ", "r", "o", "a", "d">>,
       <<"f", "a", "u", "n", "a", "l", "i", "a">>, <<"q", "c", "o", "o", "p", "e", "r", "a", "t", "i", "v", "e">>, <<"s", "p", "a", "t", "i", "a", "l", "y", "s">>, <<"3", "l", "i", "z">>, <<"q", "g", "i", "s">> >>

\* is_company_name(text)
is_company_name(text) ==
    LET text_lower == RemoveChar(Lower(text), " ")
    IN  \E k \in DOMAIN company_keywords :
            Contains(text_lower, RemoveChar(company_keywords[k], " "))

\* The known name normalizations for developers, as (key, value) pairs.
developer_normalizations == {
    <<<<"M", "a", "r", "t", "i", "a", "n", " ", "D", "o", "b", "i", "a", "s">>, <<"M", "a", "r", "t", "i", "n", " ", "D", "o", "b", "i", "a", "s">>>>,
    <<<<"A", "l", "e", "x", " ", "B", "r", "u", "y">>, <<"A", "l", "e", "x", "a", "n", "d", "e", "r", " ", "B", "r", "u", "y">>>>,
    <<<<"B", "e", "l", "g", "a", "c", "e", "m", " ", "N", "e", "d", "j", "i", "m", "a">>, <<"N", "e", "d", "j", "i", "m", "a", " ", "B", "e", "l", "g", "a", "c", "e", "m">>>>
}

\* developer_normalizations.get(dev_name, dev_name)
NormalizedDeveloper(dev_name) ==
    LET known == {kv \in developer_normalizations : kv[1] = dev_name}
    IN  IF known # {} THEN (CHOOSE kv \in known : TRUE)[2] ELSE dev_name

\* Mutant of collaboration_separators: ' with ' is missing from the list.
collaboration_separators_without_with == {<<" ", "&", " ">>, <<" ", "a", "n", "d", " ">>, <<",", " ">>}

collaboration_separators == {<<" ", "&", " ">>, <<" ", "a", "n", "d", " ">>, <<",", " ">>, <<" ", "w", "i", "t", "h", " ">>}

NoLink == [link |-> FALSE, company |-> EmptyStr, dev |-> EmptyStr]
Link(normalized_company, dev_name) ==
    [link |-> TRUE, company |-> normalized_company, dev |-> dev_name]

\* The known non-employee collaboration that is skipped.
IsDenylisted(dev_name, company) ==
    dev_name = <<"A", "l", "e", "s", "s", "a", "n", "d", "r", "o", " ", "P", "a", "s", "o", "t", "t", "i">> /\ Contains(company, <<"N", "o", "r", "t", "h", " ", "R", "o", "a", "d">>)

\* The "Developer (Company)" / "Company (Developer)" branch of the loop body.
ParenLink(developer) ==
    LET match == SearchNameParen(developer)
        first_part == StripChars(Strip(match.g1), {"\""})
        second_part == Strip(match.g2)
        inverted == is_company_name(first_part) /\ ~is_company_name(second_part)
        company == IF inverted THEN first_part ELSE second_part
        dev_name == IF inverted THEN second_part ELSE first_part
    IN  IF ~match.matched THEN NoLink
        ELSE IF StartsWith(company, <<"h", "t", "t", "p">>) \/ Contains(Lower(company), <<"w", "i", "t", "h", " ">>) THEN NoLink
        ELSE IF IsDenylisted(dev_name, company) THEN NoLink
        ELSE Link(normalize_company_name(company), NormalizedDeveloper(dev_name))

\* The "Company / Developer" branch of the loop body.
SlashLink(developer) ==
    LET parts == SplitParts(developer, <<" ", "/", " ">>)
    IN  Link(normalize_company_name(Strip(parts.first)),
             NormalizedDeveloper(StripChars(Strip(parts.second), {"\""})))

\* Mutant of TakesSlashBranch: the left part is not tested for a company name.
TakesSlashBranchAnyLeft(developer) ==
    /\ Contains(developer, <<" ", "/", " ">>)
    /\ SplitParts(developer, <<" ", "/", " ">>).n = 2

TakesSlashBranch(developer) ==
    /\ Contains(developer, <<" ", "/", " ">>)
    /\ SplitParts(developer, <<" ", "/", " ">>).n = 2
    /\ is_company_name(SplitParts(developer, <<" ", "/", " ">>).first)

\* One iteration of the loop over the rows: the link the row adds, or NoLink.
RowLink(developed_by) ==
    LET developer == Strip(developed_by)
    IN  IF developer = EmptyStr \/ developer = NotSpecified THEN NoLink
        ELSE IF \E separator \in collaboration_separators : Contains(developer, separator) THEN NoLink
        ELSE IF TakesSlashBranch(developer) THEN SlashLink(developer)
        ELSE IF is_company_name(developer) /\ ~Contains(developer, <<"(">>) THEN NoLink
        ELSE ParenLink(developer)

\* company_developers[normalized_company].add(dev_name) on a defaultdict(set)
AddDeveloper(by_company, normalized_company, dev_name) ==
    IF normalized_company \in DOMAIN by_company
    THEN [by_company EXCEPT ![normalized_company] = @ \cup {dev_name}]
    ELSE by_company @@ (normalized_company :> {dev_name})

\* Mutant of CountFeature: the count is set to 1 instead of incremented.
CountFeatureOverwrite(features, normalized_company, dev_name) ==
    LET key == <<normalized_company, dev_name>>
    IN  IF key \in DOMAIN features
        THEN [features EXCEPT ![key] = 1]
        ELSE features @@ (key :> 1)

\* company_developer_features[(normalized_company, dev_name)] += 1 on a defaultdict(int)
CountFeature(features, normalized_company, dev_name) ==
    LET key == <<normalized_company, dev_name>>
    IN  IF key \in DOMAIN features
        THEN [features EXCEPT ![key] = @ + 1]
        ELSE features @@ (key :> 1)

\* company_developer_features[(company, developer)] read from the defaultdict(int)
FeatureCount(features, company, developer) ==
    IF <<company, developer>> \in DOMAIN features THEN features[<<company, developer>>] ELSE 0

\* The rows of csv_data for one company, its developers iterated in `order`.
CompanyRows(company, order, features) ==
    LET developers == sorted(order)
    IN  [i \in 1..Len(developers) |->
            [company |-> company, developer |-> developers[i],
             feature_count |-> FeatureCount(features, company, developers[i])]]

\* developed_by values the rows of the input CSV are drawn from.
RecordPool == {
    NotSpecified,
    <<"K", "a", "r", "t", "o", "z", "a">>,
    <<"A", "l", "i", "c", "e", " ", "(", "A", "c", "m", "e", ")">>,
    <<"B", "o", "b", " ", "(", "A", "c", "m", "e", ")", " ">>,
    <<"A", "l", "i", "c", "e", " ", "(", "k", "a", "r", "t", "o", "z", "a", ")">>,
    <<"K", "a", "r", "t", "o", "z", "a", " ", "(", "A", "l", "i", "c", "e", ")">>,
    <<"A", "l", "e", "x", " ", "B", "r", "u", "y", " ", "(", "A", "c", "m", "e", ")">>,
    <<"A", "l", "i", "c", "e", " ", "&", " ", "B", "o", "b", " ", "(", "A", "c", "m", "e", ")">>,
    <<"A", "l", "i", "c", "e", " ", "a", "n", "d", " ", "B", "o", "b">>,
    <<"A", "l", "i", "c", "e", ",", " ", "B", "o", "b", " ", "(", "A", "c", "m", "e", ")">>,
    <<"A", "l", "i", "c", "e", " ", "w", "i", "t", "h", " ", "B", "o", "b", " ", "(", "A", "c", "m", "e", ")">>,
    <<" ", "w", "i", "t", "h", " ", "B", "o", "b", " ", "(", "A", "c", "m", "e", ")">>,
    <<"Q", "G", "I", "S", " ", "/", " ", "B", "o", "b">>,
    <<"B", "o", "b", " ", "/", " ", "Q", "G", "I", "S">>,
    <<"A", "l", "e", "s", "s", "a", "n", "d", "r", "o", " ", "P", "a", "s", "o", "t", "t", "i", " ", "(", "N", "o", "r", "t", "h", " ", "R", "o", "a", "d", ")">>,
    <<"N", "o", "r", "t", "h", " ", "R", "o", "a", "d", " ", "(", "A", "l", "e", "s", "s", "a", "n", "d", "r", "o", " ", "P", "a", "s", "o", "t", "t", "i", ")">>,
    <<"A", "l", "e", "s", "s", "a", "n", "d", "r", "o", " ", "P", "a", "s", "o", "t", "t", "i", " ", "(", "N", "O", "R", "T", "H", " ", "R", "O", "A", "D", ")">>,
    <<"N", "o", "r", "t", "h", " ", "R", "o", "a", "d", " ", "/", " ", "A", "l", "e", "s", "s", "a", "n", "d", "r", "o", " ", "P", "a", "s", "o", "t", "t", "i">>
}

SeqsUpTo(S, n) == UNION {[1..k -> S] : k \in 0..n}

NoOutput == <<"none">>

ExtractIdle ==
    /\ rows = <<>> /\ row_i = 0 /\ epc = "idle"
    /\ company_keys = <<>> /\ company_developers = <<>>
    /\ company_developer_features = <<>>
    /\ emit_queue = <<>> /\ csv_data = <<>>
    /\ erun = 0 /\ prev_csv = NoOutput

ClusterIdle ==
    /\ names = <<>> /\ threshold = 0 /\ cpc = "idle"
    /\ unique_names = <<>> /\ name_counts = <<>>
    /\ name_mapping = <<>> /\ processed = {}
    /\ ci = 0 /\ cluster_log = <<>>
    /\ crun = 0 /\ prev_mapping = NoOutput

NormalizeIdle ==
    /\ nd_name = EmptyStr /\ nd_out = EmptyStr /\ nd_again = EmptyStr /\ npc = "idle"

AggregateIdle ==
    /\ input_csv = <<>> /\ apc = "idle"
    /\ all_data = <<>> /\ companies = <<>> /\ company_order = <<>>
    /\ companies_aggregated = <<>>
    /\ developer_totals = <<>> /\ developer_order = <<>>
    /\ top_developers = <<>>
    /\ sorted_companies = <<>> /\ sorted_by_devs = <<>> /\ sorted_devs = <<>>
    /\ multi_company = <<>>

ValidateIdle ==
    /\ team_files = <<>> /\ mapping_csv = <<>> /\ vpc = "idle"
    /\ reference_teams = <<>> /\ current_mapping = <<>> /\ mapping_order = <<>>
    /\ vi = 0
    /\ validated = <<>> /\ suggestions = <<>>
    /\ not_in_reference = <<>> /\ missing_from_mapping = <<>>

CallsIdle ==
    /\ call_text = <<>> /\ calls_done = {}
    /\ company_out = <<>>
    /\ person_out = <<>> /\ link_out = NoLink
    /\ features_out = <<>> /\ zips_out = <<>>

ReconcileIdle ==
    /\ raw_rows = <<>> /\ rpc = "idle"
    /\ clean_names = <<>> /\ fuzzy_mapping = <<>>
    /\ out_rows = <<>> /\ rw_i = 0

DownloadIdle ==
    /\ changelog_urls = <<>> /\ dpc = "idle"
    /\ download_dir = <<>> /\ url_i = 0 /\ drun = 0
    /\ total_attempts = 0 /\ successful_downloads = 0 /\ skipped = 0

\* extract_companies_developers() starts on an input CSV of at most MaxRows rows.
InitExtract ==
    /\ mode = "extract"
    /\ rows \in SeqsUpTo(RecordPool, MaxRows)
    /\ row_i = 0 /\ epc = "read"
    /\ company_keys = <<>> /\ company_developers = <<>>
    /\ company_developer_features = <<>>
    /\ emit_queue = <<>> /\ csv_data = <<>>
    /\ erun = 1 /\ prev_csv = NoOutput
    /\ ClusterIdle /\ NormalizeIdle /\ AggregateIdle /\ ValidateIdle
    /\ CallsIdle /\ ReconcileIdle /\ DownloadIdle

\* for row in reader: one iteration of the loop.
ProcessRow ==
    /\ mode = "extract" /\ epc = "read" /\ row_i < Len(rows)
    /\ \E l \in {RowLink(rows[row_i + 1])} :
           IF l.link
           THEN /\ company_developers' = AddDeveloper(company_developers, l.company, l.dev)
                /\ company_developer_features' =
                       CountFeature(company_developer_features, l.company, l.dev)
                /\ company_keys' = IF l.company \in DOMAIN company_developers
                                   THEN company_keys ELSE Append(company_keys, l.company)
           ELSE UNCHANGED <<company_developers, company_developer_features, company_keys>>
    /\ row_i' = row_i + 1
    /\ UNCHANGED <<mode, rows, epc, emit_queue, csv_data, erun, prev_csv>>
    /\ UNCHANGED <<varsCluster, varsNormalize, varsAggregate, varsValidate, varsCalls, varsReconcile, varsDownload>>

\* The loop is over: csv_data = [] and the companies are sorted for the output.
StartEmit ==
    /\ mode = "extract" /\ epc = "read" /\ row_i = Len(rows)
    /\ emit_queue' = sorted(company_keys)
    /\ csv_data' = <<>>
    /\ epc' = "emit"
    /\ UNCHANGED <<mode, rows, row_i, company_keys, company_developers,
                   company_developer_features, erun, prev_csv>>
    /\ UNCHANGED <<varsCluster, varsNormalize, varsAggregate, varsValidate, varsCalls, varsReconcile, varsDownload>>

\* for company in sorted(...): the developers of one company, a set that is
\* iterated in an order the run does not control, are sorted and appended.
EmitCompany ==
    /\ mode = "extract" /\ epc = "emit" /\ emit_queue # <<>>
    /\ \E order \in Orders(company_developers[Head(emit_queue)]) :
           csv_data' = csv_data \o CompanyRows(Head(emit_queue), order, company_developer_features)
    /\ emit_queue' = Tail(emit_queue)
    /\ UNCHANGED <<mode, rows, row_i, epc, company_keys, company_developers,
                   company_developer_features, erun, prev_csv>>
    /\ UNCHANGED <<varsCluster, varsNormalize, varsAggregate, varsValidate, varsCalls, varsReconcile, varsDownload>>

\* writer.writerows(csv_data): the output CSV is written.
WriteCsv ==
    /\ mode = "extract" /\ epc = "emit" /\ emit_queue = <<>>
    /\ epc' = "done"
    /\ UNCHANGED <<mode, rows, row_i, company_keys, company_developers,
                   company_developer_features, emit_queue, csv_data, erun, prev_csv>>
    /\ UNCHANGED <<varsCluster, varsNormalize, varsAggregate, varsValidate, varsCalls, varsReconcile, varsDownload>>

\* The script is run again on the same input CSV.
RunExtractAgain ==
    /\ mode = "extract" /\ epc = "done" /\ erun = 1
    /\ prev_csv' = csv_data
    /\ erun' = 2
    /\ row_i' = 0 /\ epc' = "read"
    /\ company_keys' = <<>> /\ company_developers' = <<>>
    /\ company_developer_features' = <<>>
    /\ emit_queue' = <<>> /\ csv_data' = <<>>
    /\ UNCHANGED <<mode, rows>>
    /\ UNCHANGED <<varsCluster, varsNormalize, varsAggregate, varsValidate, varsCalls, varsReconcile, varsDownload>>

NextExtract == ProcessRow \/ StartEmit \/ EmitCompany \/ WriteCsv \/ RunExtractAgain

SpecExtract == InitExtract /\ [][NextExtract]_vars

(***************************************************************************)
(* normalize_developers.py: find_fuzzy_clusters                            *)
(***************************************************************************)
SIMILARITY_THRESHOLD == 85

\* One row of the longest-common-subsequence table: row[j + 1] is the length
\* for the first j characters of b.
RECURSIVE LcsRow(_, _, _, _)
LcsRow(prev, c, b, cur) ==
    IF Len(cur) = Len(b) + 1 THEN cur
    ELSE LET j == Len(cur)
             best == IF prev[j + 1] >= cur[j] THEN prev[j + 1] ELSE cur[j]
         IN  LcsRow(prev, c, b, Append(cur, IF c = b[j] THEN prev[j] + 1 ELSE best))

RECURSIVE LcsRows(_, _, _, _)
LcsRows(a, b, i, prev) ==
    IF i > Len(a) THEN prev[Len(b) + 1]
    ELSE LcsRows(a, b, i + 1, LcsRow(prev, a[i], b, <<0>>))

\* Length of the longest common subsequence of a and b.
Lcs(a, b) == LcsRows(a, b, 1, [j \in 1..(Len(b) + 1) |-> 0])

\* fuzz.ratio(a, b) >= t, where fuzz.ratio is the normalized indel similarity
\* 100 * 2 * Lcs(a, b) / (len(a) + len(b)), and 100 for two empty strings.
RatioAtLeast(a, b, t) ==
    IF Len(a) + Len(b) = 0 THEN 100 >= t
    ELSE 200 * Lcs(a, b) >= t * (Len(a) + Len(b))

\* Mutant of IsSimilar: the comparison with the threshold is strict.
IsSimilarStrict(name, other_name, t) ==
    200 * Lcs(Lower(name), Lower(other_name)) > t * (Len(name) + Len(other_name))

\* ratio = fuzz.ratio(name.lower(), other_name.lower()); ratio >= threshold
IsSimilar(name, other_name, t) == RatioAtLeast(Lower(name), Lower(other_name), t)

\* Mutant of IsCandidate: names already assigned are compared again.
IsCandidateAgain(other_name, name, assigned) == other_name # name

\* The names a seed is compared with: every other name not yet assigned.
IsCandidate(other_name, name, assigned) == other_name # name /\ other_name \notin assigned

\* names = [n for n in names if n]
NonEmptyNames(seq) == SelectSeq(seq, LAMBDA n : n # EmptyStr)

\* list(Counter(names).keys()): the distinct names in first-seen order.
RECURSIVE UniqueNames(_)
UniqueNames(seq) ==
    IF seq = <<>> THEN <<>>
    ELSE LET front == UniqueNames(SubSeq(seq, 1, Len(seq) - 1))
             last == seq[Len(seq)]
         IN  IF \E i \in DOMAIN front : front[i] = last THEN front ELSE Append(front, last)

\* Counter(names)[n]
CountOf(seq, n) == Cardinality({i \in DOMAIN seq : seq[i] = n})

\* similar.sort(key=lambda x: x[2], reverse=True): stable, highest count first.
RECURSIVE InsertByCount(_, _)
InsertByCount(x, seq) ==
    IF seq = <<>> THEN <<x>>
    ELSE IF Head(seq).count <= x.count THEN <<x>> \o seq
    ELSE <<Head(seq)>> \o InsertByCount(x, Tail(seq))

RECURSIVE SortByCount(_)
SortByCount(seq) ==
    IF seq = <<>> THEN <<>> ELSE InsertByCount(Head(seq), SortByCount(Tail(seq)))

\* The list `similar` of a seed, before the seed itself is added.
SimilarTo(name, uniques, counts, assigned, t) ==
    LET others == SelectSeq(uniques,
                      LAMBDA o : IsCandidate(o, name, assigned) /\ IsSimilar(name, o, t))
    IN  [i \in 1..Len(others) |-> [name |-> others[i], count |-> counts[others[i]]]]

\* similar.append((name, 100, name_counts[name])), then the sort.
SimilarSorted(name, uniques, counts, assigned, t) ==
    SortByCount(Append(SimilarTo(name, uniques, counts, assigned, t),
                       [name |-> name, count |-> counts[name]]))

\* Mutant of MapVariants: the canonical is recorded as a variant of itself.
MapVariantsWithCanonical(mapping, members, canonical) ==
    [n \in (DOMAIN mapping) \cup members |->
        IF n \in members THEN canonical ELSE mapping[n]]

\* name_mapping[variant] = canonical for every variant of the cluster.
MapVariants(mapping, members, canonical) ==
    [n \in (DOMAIN mapping) \cup (members \ {canonical}) |->
        IF n \in members THEN canonical ELSE mapping[n]]

\* Names the clusterer is called with, and the thresholds.
NamePool == {EmptyStr, <<"a", "b", "c", "d">>, <<"A", "b", "c", "d">>, <<"a", "b", "c", "e">>, <<"a", "b", "c", "d", "e">>, <<"a", "b", "c", "d", "e", "f">>, <<"x", "y">>}
Thresholds == {75, 76, SIMILARITY_THRESHOLD}

\* find_fuzzy_clusters(names, threshold) is called.
InitCluster ==
    /\ mode = "cluster"
    /\ names \in SeqsUpTo(NamePool, MaxNames)
    /\ threshold \in Thresholds
    /\ cpc = "start"
    /\ unique_names = <<>> /\ name_counts = <<>>
    /\ name_mapping = <<>> /\ processed = {}
    /\ ci = 0 /\ cluster_log = <<>>
    /\ crun = 1 /\ prev_mapping = NoOutput
    /\ ExtractIdle /\ NormalizeIdle /\ AggregateIdle /\ ValidateIdle
    /\ CallsIdle /\ ReconcileIdle /\ DownloadIdle

\* The empty names are filtered out and the rest counted; an empty list returns {}.
CountNames ==
    /\ mode = "cluster" /\ cpc = "start"
    /\ LET kept == NonEmptyNames(names)
       IN  /\ unique_names' = UniqueNames(kept)
           /\ name_counts' = [n \in {kept[i] : i \in DOMAIN kept} |-> CountOf(kept, n)]
           /\ cpc' = IF kept = <<>> THEN "done" ELSE "loop"
    /\ name_mapping' = <<>> /\ processed' = {} /\ ci' = 0
    /\ UNCHANGED <<mode, names, threshold, cluster_log, crun, prev_mapping>>
    /\ UNCHANGED <<varsExtract, varsNormalize, varsAggregate, varsValidate, varsCalls, varsReconcile, varsDownload>>

\* for i, name in enumerate(unique_names): one iteration of the outer loop.
ClusterStep ==
    /\ mode = "cluster" /\ cpc = "loop" /\ ci < Len(unique_names)
    /\ \E similar \in {SimilarSorted(unique_names[ci + 1], unique_names, name_counts,
                                      processed, threshold)} :
       LET name == unique_names[ci + 1]
           canonical == similar[1].name
           members == {similar[i].name : i \in DOMAIN similar}
       IN  IF name \in processed \/ Len(similar) = 1
           THEN UNCHANGED <<name_mapping, processed, cluster_log>>
           ELSE /\ name_mapping' = MapVariants(name_mapping, members, canonical)
                /\ processed' = processed \cup members
                /\ cluster_log' = Append(cluster_log,
                       [seed |-> name, before |-> processed,
                        members |-> members, canonical |-> canonical])
    /\ ci' = ci + 1
    /\ UNCHANGED <<mode, names, threshold, cpc, unique_names, name_counts, crun, prev_mapping>>
    /\ UNCHANGED <<varsExtract, varsNormalize, varsAggregate, varsValidate, varsCalls, varsReconcile, varsDownload>>

\* return name_mapping
ReturnMapping ==
    /\ mode = "cluster" /\ cpc = "loop" /\ ci = Len(unique_names)
    /\ cpc' = "done"
    /\ UNCHANGED <<mode, names, threshold, unique_names, name_counts, name_mapping,
                   processed, ci, cluster_log, crun, prev_mapping>>
    /\ UNCHANGED <<varsExtract, varsNormalize, varsAggregate, varsValidate, varsCalls, varsReconcile, varsDownload>>

\* find_fuzzy_clusters is called again with the same arguments.
RunClusterAgain ==
    /\ mode = "cluster" /\ cpc = "done" /\ crun = 1
    /\ prev_mapping' = name_mapping
    /\ crun' = 2
    /\ cpc' = "start"
    /\ unique_names' = <<>> /\ name_counts' = <<>>
    /\ name_mapping' = <<>> /\ processed' = {}
    /\ ci' = 0 /\ cluster_log' = <<>>
    /\ UNCHANGED <<mode, names, threshold>>
    /\ UNCHANGED <<varsExtract, varsNormalize, varsAggregate, varsValidate, varsCalls, varsReconcile, varsDownload>>

NextCluster == CountNames \/ ClusterStep \/ ReturnMapping \/ RunClusterAgain

SpecCluster == InitCluster /\ [][NextCluster]_vars

(***************************************************************************)
(* normalize_features.py: normalize_developer_name                         *)
(***************************************************************************)
\* re.sub(r'\s*' + literal, '', s, flags=re.IGNORECASE) for a literal that
\* starts with a character that is not whitespace.
RECURSIVE SubWsLiteral(_, _)
SubWsLiteral(s, literal) ==
    IF s = EmptyStr THEN s
    ELSE LET at == 1 + WsRun(s, 1)
         IN  IF MatchAt(Lower(s), at, Lower(literal))
             THEN SubWsLiteral(From(s, at + Len(literal)), literal)
             ELSE <<Head(s)>> \o SubWsLiteral(Tail(s), literal)

\* Length of a match of \(http[s]?://[^\)]+\) at index i of s, 0 when none.
UrlParenAt(s, i) ==
    LET low == Lower(s)
        scheme == IF MatchAt(low, i, <<"(", "h", "t", "t", "p", "s", ":", "/", "/">>) THEN 9
                  ELSE IF MatchAt(low, i, <<"(", "h", "t", "t", "p", ":", "/", "/">>) THEN 8 ELSE 0
        close == IF scheme = 0 THEN 0 ELSE Find(s, <<")">>, i + scheme)
    IN  IF close > i + scheme THEN close + 1 - i ELSE 0

\* re.sub(r'\s*\(http[s]?://[^\)]+\)', '', s, flags=re.IGNORECASE)
RECURSIVE SubUrlParen(_)
SubUrlParen(s) ==
    IF s = EmptyStr THEN s
    ELSE LET at == 1 + WsRun(s, 1)
             n == UrlParenAt(s, at)
         IN  IF n > 0 THEN SubUrlParen(From(s, at + n))
             ELSE <<Head(s)>> \o SubUrlParen(Tail(s))

\* The literal patterns_to_remove, in the order of the list.
patterns_to_remove ==
    << <<"(", "N", "o", "r", "t", "h", " ", "R", "o", "a", "d", ")">>, <<"(", "N", "o", "r", "t", "h", ")">>, <<"(", "L", "u", "t", "r", "a", " ", "C", "o", "n", "s", "u", "l", "t", "i", "n", "g", ")">>, <<"(", "L", "u", "t", "r", "a", ")">>,
       <<"(", "O", "P", "E", "N", "G", "I", "S", ".", "c", "h", ")">>, <<"(", "K", "a", "r", "t", "o", "z", "a", ")">>, <<"(", "O", "s", "l", "a", "n", "d", "i", "a", ")">>, <<"(", "O", "S", "L", "A", "N", "D", "I", "A", ")">>,
       <<"(", "F", "a", "u", "n", "a", "l", "i", "a", ")">>, <<"(", "w", "w", "w", ".", "k", "a", "r", "t", "o", "z", "a", ".", "c", "o", "m", ")">> >>

\* for pattern in patterns_to_remove: name = re.sub(pattern, '', name, ...)
RECURSIVE RemovePatterns(_, _)
RemovePatterns(name, k) ==
    IF k > Len(patterns_to_remove) THEN SubUrlParen(name)
    ELSE RemovePatterns(SubWsLiteral(name, patterns_to_remove[k]), k + 1)

\* Mutant of SubOslandiaPrefix: the prefix is left in place.
KeepOslandiaPrefix(s) == s

\* re.sub(r'^OSLANDIA\s*-\s*', '', s, flags=re.IGNORECASE)
SubOslandiaPrefix(s) ==
    LET dash == 9 + WsRun(s, 9)
    IN  IF StartsWith(Lower(s), <<"o", "s", "l", "a", "n", "d", "i", "a">>) /\ dash <= Len(s) /\ s[dash] = "-"
        THEN From(s, dash + 1 + WsRun(s, dash + 1))
        ELSE s

\* re.sub(r'\s+in collaboration with.*$', '', s, flags=re.IGNORECASE)
SubCollaboration(s) ==
    LET at == {p \in 2..Len(s) : s[p - 1] \in Whitespace
                                 /\ MatchAt(Lower(s), p, <<"i", "n", " ", "c", "o", "l", "l", "a", "b", "o", "r", "a", "t", "i", "o", "n", " ", "w", "i", "t", "h">>)}
    IN  IF at = {} THEN s ELSE SubSeq(s, 1, WsRunStart(s, Min(at)) - 1)

\* re.sub(r'\s*/\s*$', '', s)
SubTrailingSlash(s) ==
    LET solid == {j \in 1..Len(s) : s[j] \notin Whitespace}
    IN  IF solid # {} /\ s[Max(solid)] = "/"
        THEN SubSeq(s, 1, WsRunStart(s, Max(solid)) - 1)
        ELSE s

\* len(s.split()) == 1
IsSingleToken(s) == s # EmptyStr /\ \A i \in DOMAIN s : s[i] \notin Whitespace

\* name_lower == first or (name_lower.startswith(first) and surname not in
\* name_lower and len(name_lower.split()) == 1), or both in name_lower.
FirstNameRule(name_lower, first, surname) ==
    \/ name_lower = first
    \/ (StartsWith(name_lower, first) /\ ~Contains(name_lower, surname) /\ IsSingleToken(name_lower))
    \/ (Contains(name_lower, first) /\ Contains(name_lower, surname))

\* The final cleaning of a name no rule matched.
CleanedName(name) ==
    LET spaced == Strip(SubSpaces(name))
        uncomma == Strip(RStripChars(spaced, {","}))
        unslashed == Strip(SubTrailingSlash(uncomma))
    IN  IF unslashed = EmptyStr THEN NotSpecified ELSE unslashed

\* Mutant of jefn_canonical: the jef-n rule spells the name without the umlaut.
jefn_canonical_ascii == <<"J", "u", "e", "r", "g", "e", "n", " ", "F", "i", "s", "c", "h", "e", "r">>

\* The canonical name the jef-n rule returns.
jefn_canonical == <<"J", "U+00FC", "r", "g", "e", "n", " ", "F", "i", "s", "c", "h", "e", "r">>

NoRule == EmptyStr

\* Mutant of MatchedRule: the Nyall rule is tried first, as in the documented order.
MatchedRuleNyallFirst(name) ==
    LET name_lower == Lower(name)
    IN  IF Contains(name_lower, <<"n", "y", "a", "l", "l">>) THEN <<"N", "y", "a", "l", "l", " ", "D", "a", "w", "s", "o", "n">>
        ELSE IF name_lower = <<"n", "o", "r", "t", "h", " ", "r", "o", "a", "d">> THEN <<"N", "y", "a", "l", "l", " ", "D", "a", "w", "s", "o", "n">>
        ELSE IF Contains(name_lower, <<"j", "e", "f", "-", "n">>) \/ name_lower = <<"j", "e", "f", "-", "n">> THEN <<"J", "U+00FC", "r", "g", "e", "n", " ", "F", "i", "s", "c", "h", "e", "r">>
        ELSE IF Contains(name_lower, <<"j", "u", "e", "r", "g", "e", "n">>) \/ Contains(name_lower, <<"j", "U+00FC", "r", "g", "e", "n">>)
            THEN <<"J", "U+00FC", "r", "g", "e", "n", " ", "F", "i", "s", "c", "h", "e", "r">>
        ELSE IF Contains(name_lower, <<"l", "u", "t", "r", "a">>) THEN <<"L", "u", "t", "r", "a", " ", "C", "o", "n", "s", "u", "l", "t", "i", "n", "g">>
        ELSE IF StartsWith(name_lower, <<"d", "e", "n", "i", "s">>) THEN <<"D", "e", "n", "i", "s", " ", "R", "o", "u", "z", "a", "u", "d">>
        ELSE IF StartsWith(name_lower, <<"e", "t", "i", "e", "n", "n", "e">>) \/ StartsWith(name_lower, <<"U+00E9", "t", "i", "e", "n", "n", "e">>)
            THEN <<"U+00C9", "t", "i", "e", "n", "n", "e", " ", "T", "r", "i", "m", "a", "i", "l", "l", "e">>
        ELSE IF (StartsWith(name_lower, <<"m", "a", "t", "t", "e", "o", " ", "g", "h", "e", "t", "t", "a">>) \/ StartsWith(name_lower, <<"m", "a", "t", "t", "e", "o">>))
                /\ (Contains(name_lower, <<"g", "h", "e", "t", "t", "a">>) \/ name_lower = <<"m", "a", "t", "t", "e", "o">>)
            THEN <<"M", "a", "t", "t", "e", "o", " ", "G", "h", "e", "t", "t", "a">>
        ELSE IF FirstNameRule(name_lower, <<"a", "n", "d", "r", "e", "a">>, <<"g", "i", "u", "d", "i", "c", "e", "a", "n", "d", "r", "e", "a">>) THEN <<"A", "n", "d", "r", "e", "a", " ", "G", "i", "u", "d", "i", "c", "e", "a", "n", "d", "r", "e", "a">>
        ELSE IF FirstNameRule(name_lower, <<"i", "s", "m", "a", "i", "l">>, <<"s", "u", "n", "n", "i">>) THEN <<"I", "s", "m", "a", "i", "l", " ", "S", "u", "n", "n", "i">>
        ELSE IF FirstNameRule(name_lower, <<"n", "a", "t", "h", "a", "n">>, <<"w", "o", "o", "d", "r", "o", "w">>) THEN <<"N", "a", "t", "h", "a", "n", " ", "W", "o", "o", "d", "r", "o", "w">>
        ELSE IF FirstNameRule(name_lower, <<"m", "a", "r", "c", "o">>, <<"b", "e", "r", "n", "a", "s", "o", "c", "c", "h", "i">>) THEN <<"M", "a", "r", "c", "o", " ", "B", "e", "r", "n", "a", "s", "o", "c", "c", "h", "i">>
        ELSE IF FirstNameRule(name_lower, <<"s", "a", "l", "v", "a", "t", "o", "r", "e">>, <<"l", "a", "r", "o", "s", "a">>) THEN <<"S", "a", "l", "v", "a", "t", "o", "r", "e", " ", "L", "a", "r", "o", "s", "a">>
        ELSE IF Contains(name_lower, <<"m", "a", "t", "h", "i", "e", "u">>) THEN <<"M", "a", "t", "h", "i", "e", "u", " ", "P", "e", "l", "l", "e", "r", "i", "n">>
        ELSE IF \/ name_lower = <<"a", "l", "e", "s", "s", "a", "n", "d", "r", "o">>
                \/ (StartsWith(name_lower, <<"a", "l", "e", "s", "s", "a", "n", "d", "r", "o">>) /\ ~Contains(name_lower, <<"p", "a", "s", "o", "t", "t", "i">>))
                \/ (Contains(name_lower, <<"a", "l", "e", "s", "s", "a", "n", "d", "r", "o">>) /\ Contains(name_lower, <<"p", "a", "s", "o", "t", "t", "i">>))
            THEN <<"A", "l", "e", "s", "s", "a", "n", "d", "r", "o", " ", "P", "a", "s", "o", "t", "t", "i">>
        ELSE IF name_lower \in {<<"a", "l", "e", "x", "a", "n", "d", "e", "r">>, <<"a", "l", "e", "x", " ", "b", "r", "u", "y">>, <<"a", "l", "e", "x", "a", "n", "d", "e", "r", " ", "b", "r", "u", "y">>}
            THEN <<"A", "l", "e", "x", "a", "n", "d", "e", "r", " ", "B", "r", "u", "y">>
        ELSE IF (StartsWith(name_lower, <<"a", "l", "e", "x", "a", "n", "d", "e", "r">>) \/ StartsWith(name_lower, <<"a", "l", "e", "x">>))
                /\ Contains(name_lower, <<"b", "r", "u", "y">>)
            THEN <<"A", "l", "e", "x", "a", "n", "d", "e", "r", " ", "B", "r", "u", "y">>
        ELSE IF FirstNameRule(name_lower, <<"e", "v", "e", "n">>, <<"r", "o", "u", "a", "u", "l", "t">>) THEN <<"E", "v", "e", "n", " ", "R", "o", "u", "a", "u", "l", "t">>
        ELSE IF Contains(name_lower, <<"l", "o", "U+00EF", "c">>) \/ Contains(name_lower, <<"l", "o", "i", "c">>)
            THEN <<"L", "o", "U+00EF", "c", " ", "B", "a", "r", "t", "o", "l", "e", "t", "t", "i">>
        ELSE IF FirstNameRule(name_lower, <<"m", "a", "r", "t", "i", "n">>, <<"d", "o", "b", "i", "a", "s">>) THEN <<"M", "a", "r", "t", "i", "n", " ", "D", "o", "b", "i", "a", "s">>
        ELSE IF FirstNameRule(name_lower, <<"m", "a", "t", "t", "h", "i", "a", "s">>, <<"k", "u", "h", "n">>) THEN <<"M", "a", "t", "t", "h", "i", "a", "s", " ", "K", "u", "h", "n">>
        ELSE IF FirstNameRule(name_lower, <<"j", "u", "l", "i", "e", "n">>, <<"c", "a", "b", "i", "e", "c", "e", "s">>) THEN <<"J", "u", "l", "i", "e", "n", " ", "C", "a", "b", "i", "e", "c", "e", "s">>
        ELSE IF name_lower \in {<<"p", "a", "u", "l">>, <<"p", "a", "u", " ", "b", "l", "o", "t", "t", "i", "e", "r", "e">>} THEN <<"P", "a", "u", "l", " ", "B", "l", "o", "t", "t", "i", "e", "r", "e">>
        ELSE IF Contains(name_lower, <<"p", "a", "u", "l">>) /\ Contains(name_lower, <<"b", "l", "o", "t", "t", "i", "e", "r", "e">>)
            THEN <<"P", "a", "u", "l", " ", "B", "l", "o", "t", "t", "i", "e", "r", "e">>
        ELSE IF Contains(name_lower, <<"p", "a", "u">>) /\ Contains(name_lower, <<"b", "l", "o", "t", "t", "i", "e", "r", "e">>)
            THEN <<"P", "a", "u", "l", " ", "B", "l", "o", "t", "t", "i", "e", "r", "e">>
        ELSE IF FirstNameRule(name_lower, <<"s", "a", "n", "d", "r", "o">>, <<"s", "a", "n", "t", "i", "l", "l", "i">>) THEN <<"S", "a", "n", "d", "r", "o", " ", "S", "a", "n", "t", "i", "l", "l", "i">>
        ELSE NoRule

\* The rules applied to the cleaned, non-empty name, in the order of the code:
\* the canonical name of the first rule that matches, NoRule when none does.
MatchedRule(name) ==
    LET name_lower == Lower(name)
    IN  IF name_lower = <<"n", "o", "r", "t", "h", " ", "r", "o", "a", "d">> THEN <<"N", "y", "a", "l", "l", " ", "D", "a", "w", "s", "o", "n">>
        ELSE IF Contains(name_lower, <<"j", "e", "f", "-", "n">>) \/ name_lower = <<"j", "e", "f", "-", "n">> THEN jefn_canonical
        ELSE IF Contains(name_lower, <<"j", "u", "e", "r", "g", "e", "n">>) \/ Contains(name_lower, <<"j", "U+00FC", "r", "g", "e", "n">>)
            THEN <<"J", "U+00FC", "r", "g", "e", "n", " ", "F", "i", "s", "c", "h", "e", "r">>
        ELSE IF Contains(name_lower, <<"l", "u", "t", "r", "a">>) THEN <<"L", "u", "t", "r", "a", " ", "C", "o", "n", "s", "u", "l", "t", "i", "n", "g">>
        ELSE IF StartsWith(name_lower, <<"d", "e", "n", "i", "s">>) THEN <<"D", "e", "n", "i", "s", " ", "R", "o", "u", "z", "a", "u", "d">>
        ELSE IF StartsWith(name_lower, <<"e", "t", "i", "e", "n", "n", "e">>) \/ StartsWith(name_lower, <<"U+00E9", "t", "i", "e", "n", "n", "e">>)
            THEN <<"U+00C9", "t", "i", "e", "n", "n", "e", " ", "T", "r", "i", "m", "a", "i", "l", "l", "e">>
        ELSE IF (StartsWith(name_lower, <<"m", "a", "t", "t", "e", "o", " ", "g", "h", "e", "t", "t", "a">>) \/ StartsWith(name_lower, <<"m", "a", "t", "t", "e", "o">>))
                /\ (Contains(name_lower, <<"g", "h", "e", "t", "t", "a">>) \/ name_lower = <<"m", "a", "t", "t", "e", "o">>)
            THEN <<"M", "a", "t", "t", "e", "o", " ", "G", "h", "e", "t", "t", "a">>
        ELSE IF FirstNameRule(name_lower, <<"a", "n", "d", "r", "e", "a">>, <<"g", "i", "u", "d", "i", "c", "e", "a", "n", "d", "r", "e", "a">>) THEN <<"A", "n", "d", "r", "e", "a", " ", "G", "i", "u", "d", "i", "c", "e", "a", "n", "d", "r", "e", "a">>
        ELSE IF FirstNameRule(name_lower, <<"i", "s", "m", "a", "i", "l">>, <<"s", "u", "n", "n", "i">>) THEN <<"I", "s", "m", "a", "i", "l", " ", "S", "u", "n", "n", "i">>
        ELSE IF FirstNameRule(name_lower, <<"n", "a", "t", "h", "a", "n">>, <<"w", "o", "o", "d", "r", "o", "w">>) THEN <<"N", "a", "t", "h", "a", "n", " ", "W", "o", "o", "d", "r", "o", "w">>
        ELSE IF FirstNameRule(name_lower, <<"m", "a", "r", "c", "o">>, <<"b", "e", "r", "n", "a", "s", "o", "c", "c", "h", "i">>) THEN <<"M", "a", "r", "c", "o", " ", "B", "e", "r", "n", "a", "s", "o", "c", "c", "h", "i">>
        ELSE IF FirstNameRule(name_lower, <<"s", "a", "l", "v", "a", "t", "o", "r", "e">>, <<"l", "a", "r", "o", "s", "a">>) THEN <<"S", "a", "l", "v", "a", "t", "o", "r", "e", " ", "L", "a", "r", "o", "s", "a">>
        ELSE IF Contains(name_lower, <<"n", "y", "a", "l", "l">>) THEN <<"N", "y", "a", "l", "l", " ", "D", "a", "w", "s", "o", "n">>
        ELSE IF Contains(name_lower, <<"m", "a", "t", "h", "i", "e", "u">>) THEN <<"M", "a", "t", "h", "i", "e", "u", " ", "P", "e", "l", "l", "e", "r", "i", "n">>
        ELSE IF \/ name_lower = <<"a", "l", "e", "s", "s", "a", "n", "d", "r", "o">>
                \/ (StartsWith(name_lower, <<"a", "l", "e", "s", "s", "a", "n", "d", "r", "o">>) /\ ~Contains(name_lower, <<"p", "a", "s", "o", "t", "t", "i">>))
                \/ (Contains(name_lower, <<"a", "l", "e", "s", "s", "a", "n", "d", "r", "o">>) /\ Contains(name_lower, <<"p", "a", "s", "o", "t", "t", "i">>))
            THEN <<"A", "l", "e", "s", "s", "a", "n", "d", "r", "o", " ", "P", "a", "s", "o", "t", "t", "i">>
        ELSE IF name_lower \in {<<"a", "l", "e", "x", "a", "n", "d", "e", "r">>, <<"a", "l", "e", "x", " ", "b", "r", "u", "y">>, <<"a", "l", "e", "x", "a", "n", "d", "e", "r", " ", "b", "r", "u", "y">>}
            THEN <<"A", "l", "e", "x", "a", "n", "d", "e", "r", " ", "B", "r", "u", "y">>
        ELSE IF (StartsWith(name_lower, <<"a", "l", "e", "x", "a", "n", "d", "e", "r">>) \/ StartsWith(name_lower, <<"a", "l", "e", "x">>))
                /\ Contains(name_lower, <<"b", "r", "u", "y">>)
            THEN <<"A", "l", "e", "x", "a", "n", "d", "e", "r", " ", "B", "r", "u", "y">>
        ELSE IF FirstNameRule(name_lower, <<"e", "v", "e", "n">>, <<"r", "o", "u", "a", "u", "l", "t">>) THEN <<"E", "v", "e", "n", " ", "R", "o", "u", "a", "u", "l", "t">>
        ELSE IF Contains(name_lower, <<"l", "o", "U+00EF", "c">>) \/ Contains(name_lower, <<"l", "o", "i", "c">>)
            THEN <<"L", "o", "U+00EF", "c", " ", "B", "a", "r", "t", "o", "l", "e", "t", "t", "i">>
        ELSE IF FirstNameRule(name_lower, <<"m", "a", "r", "t", "i", "n">>, <<"d", "o", "b", "i", "a", "s">>) THEN <<"M", "a", "r", "t", "i", "n", " ", "D", "o", "b", "i", "a", "s">>
        ELSE IF FirstNameRule(name_lower, <<"m", "a", "t", "t", "h", "i", "a", "s">>, <<"k", "u", "h", "n">>) THEN <<"M", "a", "t", "t", "h", "i", "a", "s", " ", "K", "u", "h", "n">>
        ELSE IF FirstNameRule(name_lower, <<"j", "u", "l", "i", "e", "n">>, <<"c", "a", "b", "i", "e", "c", "e", "s">>) THEN <<"J", "u", "l", "i", "e", "n", " ", "C", "a", "b", "i", "e", "c", "e", "s">>
        ELSE IF name_lower \in {<<"p", "a", "u", "l">>, <<"p", "a", "u", " ", "b", "l", "o", "t", "t", "i", "e", "r", "e">>} THEN <<"P", "a", "u", "l", " ", "B", "l", "o", "t", "t", "i", "e", "r", "e">>
        ELSE IF Contains(name_lower, <<"p", "a", "u", "l">>) /\ Contains(name_lower, <<"b", "l", "o", "t", "t", "i", "e", "r", "e">>)
            THEN <<"P", "a", "u", "l", " ", "B", "l", "o", "t", "t", "i", "e", "r", "e">>
        ELSE IF Contains(name_lower, <<"p", "a", "u">>) /\ Contains(name_lower, <<"b", "l", "o", "t", "t", "i", "e", "r", "e">>)
            THEN <<"P", "a", "u", "l", " ", "B", "l", "o", "t", "t", "i", "e", "r", "e">>
        ELSE IF FirstNameRule(name_lower, <<"s", "a", "n", "d", "r", "o">>, <<"s", "a", "n", "t", "i", "l", "l", "i">>) THEN <<"S", "a", "n", "d", "r", "o", " ", "S", "a", "n", "t", "i", "l", "l", "i">>
        ELSE NoRule

\* Mutant of OrganizationRule: "lutra" is a short-circuit on the raw name too.
OrganizationRuleWithLutra(name) ==
    IF Contains(Lower(name), <<"o", "p", "e", "n", "g", "i", "s", ".", "c", "h">>) \/ Contains(Lower(name), <<"o", "p", "e", "n", "g", "i", "s">>)
    THEN <<"O", "P", "E", "N", "G", "I", "S", ".", "c", "h">>
    ELSE IF Contains(Lower(name), <<"k", "a", "r", "t", "o", "z", "a">>) THEN <<"K", "a", "r", "t", "o", "z", "a">>
    ELSE IF Contains(Lower(name), <<"l", "u", "t", "r", "a">>) THEN <<"L", "u", "t", "r", "a", " ", "C", "o", "n", "s", "u", "l", "t", "i", "n", "g">>
    ELSE NoRule

\* The organization short-circuit that fires on the raw name, NoRule when none does.
OrganizationRule(name) ==
    IF Contains(Lower(name), <<"o", "p", "e", "n", "g", "i", "s", ".", "c", "h">>) \/ Contains(Lower(name), <<"o", "p", "e", "n", "g", "i", "s">>)
    THEN <<"O", "P", "E", "N", "G", "I", "S", ".", "c", "h">>
    ELSE IF Contains(Lower(name), <<"k", "a", "r", "t", "o", "z", "a">>) THEN <<"K", "a", "r", "t", "o", "z", "a">>
    ELSE NoRule

\* The name after the parentheticals, the prefix and the collaboration clause are removed.
StrippedName(name) == Strip(SubCollaboration(SubOslandiaPrefix(RemovePatterns(name, 1))))

\* normalize_developer_name(name)
normalize_developer_name(name) ==
    IF name = EmptyStr \/ name = NotSpecified THEN name
    ELSE IF OrganizationRule(name) # NoRule THEN OrganizationRule(name)
    ELSE IF StrippedName(name) = EmptyStr THEN NotSpecified
    ELSE IF MatchedRule(StrippedName(name)) # NoRule THEN MatchedRule(StrippedName(name))
    ELSE CleanedName(StrippedName(name))

\* The alias rules of the docstring, as (alias, canonical full name) pairs.
documented_aliases == {
    <<<<"N", "y", "a", "l", "l">>, <<"N", "y", "a", "l", "l", " ", "D", "a", "w", "s", "o", "n">>>>, <<<<"N", "y", "a", "l", "l", " ", "D", "a", "w", "s", "o", "n">>, <<"N", "y", "a", "l", "l", " ", "D", "a", "w", "s", "o", "n">>>>,
    <<<<"M", "a", "t", "h", "i", "e", "u">>, <<"M", "a", "t", "h", "i", "e", "u", " ", "P", "e", "l", "l", "e", "r", "i", "n">>>>, <<<<"M", "a", "t", "h", "i", "e", "u", " ", "P", "e", "l", "l", "e", "r", "i", "n">>, <<"M", "a", "t", "h", "i", "e", "u", " ", "P", "e", "l", "l", "e", "r", "i", "n">>>>,
    <<<<"A", "l", "e", "s", "s", "a", "n", "d", "r", "o">>, <<"A", "l", "e", "s", "s", "a", "n", "d", "r", "o", " ", "P", "a", "s", "o", "t", "t", "i">>>>,
    <<<<"A", "l", "e", "x", "a", "n", "d", "e", "r">>, <<"A", "l", "e", "x", "a", "n", "d", "e", "r", " ", "B", "r", "u", "y">>>>, <<<<"A", "l", "e", "x", " ", "B", "r", "u", "y">>, <<"A", "l", "e", "x", "a", "n", "d", "e", "r", " ", "B", "r", "u", "y">>>>,
    <<<<"E", "v", "e", "n">>, <<"E", "v", "e", "n", " ", "R", "o", "u", "a", "u", "l", "t">>>>,
    <<<<"L", "o", "U+00EF", "c">>, <<"L", "o", "U+00EF", "c", " ", "B", "a", "r", "t", "o", "l", "e", "t", "t", "i">>>>,
    <<<<"M", "a", "r", "t", "i", "n">>, <<"M", "a", "r", "t", "i", "n", " ", "D", "o", "b", "i", "a", "s">>>>,
    <<<<"M", "a", "t", "t", "h", "i", "a", "s">>, <<"M", "a", "t", "t", "h", "i", "a", "s", " ", "K", "u", "h", "n">>>>,
    <<<<"N", "o", "r", "t", "h", " ", "R", "o", "a", "d">>, <<"N", "y", "a", "l", "l", " ", "D", "a", "w", "s", "o", "n">>>>,
    <<<<"J", "u", "l", "i", "e", "n">>, <<"J", "u", "l", "i", "e", "n", " ", "C", "a", "b", "i", "e", "c", "e", "s">>>>,
    <<<<"P", "a", "u", "l">>, <<"P", "a", "u", "l", " ", "B", "l", "o", "t", "t", "i", "e", "r", "e">>>>, <<<<"O", "S", "L", "A", "N", "D", "I", "A", " ", "-", " ", "P", "a", "u", "l">>, <<"P", "a", "u", "l", " ", "B", "l", "o", "t", "t", "i", "e", "r", "e">>>>,
    <<<<"P", "a", "u", " ", "B", "l", "o", "t", "t", "i", "e", "r", "e">>, <<"P", "a", "u", "l", " ", "B", "l", "o", "t", "t", "i", "e", "r", "e">>>>,
    <<<<"j", "e", "f", "-", "n">>, <<"J", "U+00FC", "r", "g", "e", "n", " ", "F", "i", "s", "c", "h", "e", "r">>>>,
    <<<<"S", "a", "n", "d", "r", "o">>, <<"S", "a", "n", "d", "r", "o", " ", "S", "a", "n", "t", "i", "l", "l", "i">>>>,
    <<<<"S", "a", "l", "v", "a", "t", "o", "r", "e">>, <<"S", "a", "l", "v", "a", "t", "o", "r", "e", " ", "L", "a", "r", "o", "s", "a">>>>,
    <<<<"D", "e", "n", "i", "s">>, <<"D", "e", "n", "i", "s", " ", "R", "o", "u", "z", "a", "u", "d">>>>,
    <<<<"E", "t", "i", "e", "n", "n", "e">>, <<"U+00C9", "t", "i", "e", "n", "n", "e", " ", "T", "r", "i", "m", "a", "i", "l", "l", "e">>>>, <<<<"U+00C9", "t", "i", "e", "n", "n", "e">>, <<"U+00C9", "t", "i", "e", "n", "n", "e", " ", "T", "r", "i", "m", "a", "i", "l", "l", "e">>>>,
    <<<<"A", "n", "d", "r", "e", "a">>, <<"A", "n", "d", "r", "e", "a", " ", "G", "i", "u", "d", "i", "c", "e", "a", "n", "d", "r", "e", "a">>>>,
    <<<<"I", "s", "m", "a", "i", "l">>, <<"I", "s", "m", "a", "i", "l", " ", "S", "u", "n", "n", "i">>>>,
    <<<<"J", "u", "e", "r", "g", "e", "n", " ", "E", ".", " ", "F", "i", "s", "c", "h", "e", "r">>, <<"J", "U+00FC", "r", "g", "e", "n", " ", "F", "i", "s", "c", "h", "e", "r">>>>,
    <<<<"J", "U+00FC", "r", "g", "e", "n", " ", "F", "i", "s", "c", "h", "e", "r", " ", "i", "n", " ", "c", "o", "l", "l", "a", "b", "o", "r", "a", "t", "i", "o", "n", " ", "w", "i", "t", "h", " ", "B", "o", "b">>, <<"J", "U+00FC", "r", "g", "e", "n", " ", "F", "i", "s", "c", "h", "e", "r">>>>,
    <<<<"N", "a", "t", "h", "a", "n">>, <<"N", "a", "t", "h", "a", "n", " ", "W", "o", "o", "d", "r", "o", "w">>>>,
    <<<<"M", "a", "t", "t", "e", "o", " ", "G", "h", "e", "t", "t", "a">>, <<"M", "a", "t", "t", "e", "o", " ", "G", "h", "e", "t", "t", "a">>>>,
    <<<<"M", "a", "r", "c", "o">>, <<"M", "a", "r", "c", "o", " ", "B", "e", "r", "n", "a", "s", "o", "c", "c", "h", "i">>>>
}

\* A person name followed by each parenthetical of patterns_to_remove.
SomeName == <<"S", "o", "m", "e", " ", "N", "a", "m", "e">>
ParentheticalNames ==
    {SomeName \o <<" ">> \o patterns_to_remove[k] : k \in DOMAIN patterns_to_remove}
        \cup {<<"S", "o", "m", "e", " ", "N", "a", "m", "e", " ", "(", "h", "t", "t", "p", "s", ":", "/", "/", "a", "c", "m", "e", ".", "o", "r", "g", ")">>, <<"N", "y", "a", "l", "l", " ", "D", "a", "w", "s", "o", "n", " ", "(", "N", "o", "r", "t", "h", " ", "R", "o", "a", "d", ")">>}

\* Short texts over a few characters, which exercise the final cleaning.
TextChars == {"a", ",", " ", "/"}
ShortTexts == SeqsUpTo(TextChars, MaxTextLen)

OtherNames == {
    NotSpecified, <<"A", "l", "i", "c", "e">>, <<"P", "a", "u", "l", ",">>, <<"n", "o", "r", "t", "h", " ", " ", "r", "o", "a", "d">>, <<"L", "u", "t", "r", "a">>, <<"O", "P", "E", "N", "G", "I", "S", ".", "c", "h">>,
    <<"K", "a", "r", "t", "o", "z", "a">>, <<"S", "o", "m", "e", " ", "N", "a", "m", "e", " ", "(", "L", "u", "t", "r", "a", ")", " ", "/">>, <<"(", "N", "o", "r", "t", "h", ")">>, <<"A", "l", "i", "c", "e", " ", "(", "N", "o", "(", "N", "o", "r", "t", "h", ")", "r", "t", "h", ")">>
}

\* Names that contain "lutra", that satisfy two rules, or that start with the
\* first name of a rule.
RuleNames == {
    <<"S", "o", "m", "e", " ", "N", "a", "m", "e", " ", "(", "L", "u", "t", "r", "a", ")">>, <<"N", "y", "a", "l", "l", " ", "(", "L", "u", "t", "r", "a", " ", "C", "o", "n", "s", "u", "l", "t", "i", "n", "g", ")">>, <<"S", "o", "m", "e", " ", "N", "a", "m", "e", " ", "(", "l", "u", "t", "r", "a", " ", "t", "e", "a", "m", ")">>,
    <<"j", "e", "f", "-", "n", " ", "l", "u", "t", "r", "a">>, <<"L", "u", "t", "r", "a", " ", "(", "K", "a", "r", "t", "o", "z", "a", ")">>, <<"D", "e", "n", "i", "s", " ", "N", "y", "a", "l", "l">>, <<"S", "a", "l", "v", "a", "t", "o", "r", "e", " ", "L", "a", "r", "o", "s", "a", " ", "N", "y", "a", "l", "l">>,
    <<"N", "y", "a", "l", "l", " ", "M", "a", "t", "h", "i", "e", "u">>, <<"N", "y", "a", "l", "l", " ", "S", "m", "i", "t", "h">>, <<"A", "l", "e", "s", "s", "a", "n", "d", "r", "o", " ", "F", "u", "r", "i", "e", "r", "i">>, <<"M", "a", "r", "t", "i", "n", " ", "S", "m", "i", "t", "h">>,
    <<"M", "a", "r", "t", "i", "n", "a">>, <<"D", "e", "n", "i", "s", " ", "R", "o", "u", "z", "a", "u", "d", " ", "&", " ", "M", "a", "t", "t", "h", "i", "a", "s", " ", "K", "u", "h", "n">>
}

NormalizeInputs ==
    {kv[1] : kv \in documented_aliases} \cup ParentheticalNames \cup ShortTexts
        \cup OtherNames \cup RuleNames

\* normalize_developer_name is about to be called on a name.
InitNormalize ==
    /\ mode = "normalize"
    /\ nd_name \in NormalizeInputs
    /\ nd_out = EmptyStr /\ nd_again = EmptyStr /\ npc = "start"
    /\ ExtractIdle /\ ClusterIdle /\ AggregateIdle /\ ValidateIdle
    /\ CallsIdle /\ ReconcileIdle /\ DownloadIdle

\* normalized = normalize_developer_name(name)
Normalize ==
    /\ mode = "normalize" /\ npc = "start"
    /\ nd_out' = normalize_developer_name(nd_name)
    /\ npc' = "once"
    /\ UNCHANGED <<mode, nd_name, nd_again>>
    /\ UNCHANGED <<varsExtract, varsCluster, varsAggregate, varsValidate, varsCalls, varsReconcile, varsDownload>>

\* The result is normalized again.
NormalizeAgain ==
    /\ mode = "normalize" /\ npc = "once"
    /\ nd_again' = normalize_developer_name(nd_out)
    /\ npc' = "twice"
    /\ UNCHANGED <<mode, nd_name, nd_out>>
    /\ UNCHANGED <<varsExtract, varsCluster, varsAggregate, varsValidate, varsCalls, varsReconcile, varsDownload>>

NextNormalize == Normalize \/ NormalizeAgain

SpecNormalize == InitNormalize /\ [][NextNormalize]_vars

(***************************************************************************)
(* aggregate_data.py                                                       *)
(***************************************************************************)
\* Order of the rows extract_companies_developers writes: by company, then
\* by developer.
PairLess(p, q) == StrLess(p[1], q[1]) \/ (p[1] = q[1] /\ StrLess(p[2], q[2]))

\* The tables output/companies_developers.csv can hold: at most n rows, one
\* per (company, developer) pair, sorted, each with a feature_count.
LinkTables(cs, ds, counts, n) ==
    LET chosen == {S \in SUBSET (cs \X ds) : Cardinality(S) <= n}
        ordered(S) == {f \in Orders(S) :
                          \A i \in 1..(Cardinality(S) - 1) : PairLess(f[i], f[i + 1])}
    IN  UNION {{[i \in DOMAIN f |->
                    [company |-> f[i][1], developer |-> f[i][2], feature_count |-> c[i]]]
                : <<f, c>> \in ordered(S) \X [1..Cardinality(S) -> counts]}
               : S \in chosen}

\* sorted(S) for a set of str: its one ascending arrangement.
SortedSet(S) ==
    CHOOSE f \in Orders(S) : \A i \in 1..(Cardinality(S) - 1) : StrLess(f[i], f[i + 1])

\* companies[company]['developers'].append(...); ['total_features'] += features
\* on a defaultdict.
AddCompanyRow(comps, row) ==
    IF row.company \in DOMAIN comps
    THEN [comps EXCEPT ![row.company] =
             [developers |-> Append(@.developers, <<row.developer, row.feature_count>>),
              total_features |-> @.total_features + row.feature_count]]
    ELSE comps @@ (row.company :>
             [developers |-> << <<row.developer, row.feature_count>> >>,
              total_features |-> row.feature_count])

\* The companies dict after the loop over the rows.
RECURSIVE CompaniesOf(_)
CompaniesOf(data) ==
    IF data = <<>> THEN <<>>
    ELSE AddCompanyRow(CompaniesOf(SubSeq(data, 1, Len(data) - 1)), data[Len(data)])

\* developer_totals[developer]['companies'].add(company); ['total_features'] += features
AddDeveloperRow(totals, row) ==
    IF row.developer \in DOMAIN totals
    THEN [totals EXCEPT ![row.developer] =
             [companies |-> @.companies \cup {row.company},
              total_features |-> @.total_features + row.feature_count]]
    ELSE totals @@ (row.developer :>
             [companies |-> {row.company}, total_features |-> row.feature_count])

\* The developer_totals dict after the loop over all_data.
RECURSIVE DeveloperTotalsOf(_)
DeveloperTotalsOf(data) ==
    IF data = <<>> THEN <<>>
    ELSE AddDeveloperRow(DeveloperTotalsOf(SubSeq(data, 1, Len(data) - 1)), data[Len(data)])

\* f"{num / den:.2f}" in hundredths: the nearest hundredth. A quotient half
\* way between two hundredths is a multiple of 1/8 whenever den < 40, so it
\* is exact in binary and is rounded to the even hundredth.
TwoDecimals(num, den) ==
    LET q == (100 * num) \div den
        r == (100 * num) % den
    IN  IF 2 * r < den THEN q
        ELSE IF 2 * r > den THEN q + 1
        ELSE IF q % 2 = 0 THEN q ELSE q + 1

\* Mutant of GuardedAverage: the developers are counted one short.
GuardedAverageOneShort(total_feat, dev_count) ==
    IF dev_count > 1 THEN TwoDecimals(total_feat, dev_count - 1) ELSE 0

\* avg_feat = total_feat / dev_count if dev_count > 0 else 0, as it is written.
GuardedAverage(total_feat, dev_count) ==
    IF dev_count > 0 THEN TwoDecimals(total_feat, dev_count) ELSE 0

\* sorted(items, key=metric, reverse=True): a stable sort, so items of equal
\* metric keep the order they had.
RECURSIVE InsertByMetric(_, _, _)
InsertByMetric(x, seq, metric) ==
    IF seq = <<>> THEN <<x>>
    ELSE IF metric[Head(seq)] <= metric[x] THEN <<x>> \o seq
    ELSE <<Head(seq)>> \o InsertByMetric(x, Tail(seq), metric)

RECURSIVE SortedByMetric(_, _)
SortedByMetric(seq, metric) ==
    IF seq = <<>> THEN <<>>
    ELSE InsertByMetric(Head(seq), SortedByMetric(Tail(seq), metric), metric)

\* Companies, developers and feature counts of the tables aggregate_data reads.
AggCompanies == {<<"A", "c", "m", "e">>, <<"B", "e", "t", "a">>}
AggDevelopers == {<<"A", "m", "y">>, <<"B", "o", "b">>, <<"Z", "e", "d">>}
AggCounts == {1, 2}

\* aggregate_data() starts; output/companies_developers.csv may be absent.
InitAggregate ==
    /\ mode = "aggregate"
    /\ \/ input_csv = [exists |-> FALSE, rows |-> <<>>]
       \/ \E t \in LinkTables(AggCompanies, AggDevelopers, AggCounts, MaxLinks) :
              input_csv = [exists |-> TRUE, rows |-> t]
    /\ apc = "start"
    /\ all_data = <<>> /\ companies = <<>> /\ company_order = <<>>
    /\ companies_aggregated = <<>>
    /\ developer_totals = <<>> /\ developer_order = <<>>
    /\ top_developers = <<>>
    /\ sorted_companies = <<>> /\ sorted_by_devs = <<>> /\ sorted_devs = <<>>
    /\ multi_company = <<>>
    /\ ExtractIdle /\ ClusterIdle /\ NormalizeIdle /\ ValidateIdle
    /\ CallsIdle /\ ReconcileIdle /\ DownloadIdle

\* The rows are read; a missing input file ends the script.
LoadData ==
    /\ mode = "aggregate" /\ apc = "start"
    /\ IF input_csv.exists
       THEN /\ all_data' = input_csv.rows
            /\ companies' = CompaniesOf(input_csv.rows)
            /\ company_order' =
                   UniqueNames([i \in DOMAIN input_csv.rows |-> input_csv.rows[i].company])
            /\ apc' = "loaded"
       ELSE /\ apc' = "not_found"
            /\ UNCHANGED <<all_data, companies, company_order>>
    /\ UNCHANGED <<mode, input_csv, companies_aggregated, developer_totals, developer_order,
                   top_developers, sorted_companies, sorted_by_devs, sorted_devs,
                   multi_company>>
    /\ UNCHANGED <<varsExtract, varsCluster, varsNormalize, varsValidate, varsCalls, varsReconcile, varsDownload>>

\* 1. Aggregate by company: companies_aggregated.csv.
WriteCompanyAggregation ==
    /\ mode = "aggregate" /\ apc = "loaded"
    /\ LET ordered == sorted(company_order)
       IN  companies_aggregated' =
               [i \in DOMAIN ordered |->
                   [company |-> ordered[i],
                    total_developers |-> Len(companies[ordered[i]].developers),
                    total_features |-> companies[ordered[i]].total_features,
                    avg_features_per_dev |->
                        GuardedAverage(companies[ordered[i]].total_features,
                                       Len(companies[ordered[i]].developers))]]
    /\ apc' = "companies_written"
    /\ UNCHANGED <<mode, input_csv, all_data, companies, company_order, developer_totals,
                   developer_order, top_developers, sorted_companies, sorted_by_devs,
                   sorted_devs, multi_company>>
    /\ UNCHANGED <<varsExtract, varsCluster, varsNormalize, varsValidate, varsCalls, varsReconcile, varsDownload>>

\* total_features of each key of a dict, the metric of two rankings.
TotalFeatures(d) == [k \in DOMAIN d |-> d[k].total_features]

\* 2. Top developers by features: top_developers.csv.
WriteTopDevelopers ==
    /\ mode = "aggregate" /\ apc = "companies_written"
    /\ LET totals == DeveloperTotalsOf(all_data)
           order == UniqueNames([i \in DOMAIN all_data |-> all_data[i].developer])
           ranked == SortedByMetric(order, TotalFeatures(totals))
       IN  /\ developer_totals' = totals
           /\ developer_order' = order
           /\ top_developers' =
                  [i \in DOMAIN ranked |->
                      [developer |-> ranked[i],
                       total_features |-> totals[ranked[i]].total_features,
                       companies_count |-> Cardinality(totals[ranked[i]].companies),
                       companies |-> SortedSet(totals[ranked[i]].companies)]]
    /\ apc' = "developers_written"
    /\ UNCHANGED <<mode, input_csv, all_data, companies, company_order, companies_aggregated,
                   sorted_companies, sorted_by_devs, sorted_devs, multi_company>>
    /\ UNCHANGED <<varsExtract, varsCluster, varsNormalize, varsValidate, varsCalls, varsReconcile, varsDownload>>

\* 3. Summary statistics: the overall averages divide by the number of
\* developers and of companies, then the rankings are written.
WriteSummary ==
    /\ mode = "aggregate" /\ apc = "developers_written"
    /\ IF Len(developer_order) = 0 \/ Len(company_order) = 0
       THEN /\ apc' = "ZeroDivisionError"
            /\ UNCHANGED <<sorted_companies, sorted_by_devs, sorted_devs, multi_company>>
       ELSE /\ sorted_companies' = SortedByMetric(company_order, TotalFeatures(companies))
            /\ sorted_by_devs' =
                   SortedByMetric(company_order,
                                  [c \in DOMAIN companies |-> Len(companies[c].developers)])
            /\ sorted_devs' = SortedByMetric(developer_order, TotalFeatures(developer_totals))
            /\ multi_company' =
                   SelectSeq(developer_order,
                             LAMBDA d : Cardinality(developer_totals[d].companies) > 1)
            /\ apc' = "done"
    /\ UNCHANGED <<mode, input_csv, all_data, companies, company_order, companies_aggregated,
                   developer_totals, developer_order, top_developers>>
    /\ UNCHANGED <<varsExtract, varsCluster, varsNormalize, varsValidate, varsCalls, varsReconcile, varsDownload>>

NextAggregate == LoadData \/ WriteCompanyAggregation \/ WriteTopDevelopers \/ WriteSummary

SpecAggregate == InitAggregate /\ [][NextAggregate]_vars

(***************************************************************************)
(* validate_companies_mapping.py                                           *)
(***************************************************************************)
\* The companies that have a reference team file.
TEAM_FILES ==
    {<<"L", "u", "t", "r", "a", " ", "C", "o", "n", "s", "u", "l", "t", "i", "n", "g">>, <<"O", "P", "E", "N", "G", "I", "S", ".", "c", "h">>, <<"O", "s", "l", "a", "n", "d", "i", "a">>, <<"N", "o", "r", "t", "h", " ", "R", "o", "a", "d">>, <<"K", "a", "r", "t", "o", "z", "a">>,
     <<"F", "a", "u", "n", "a", "l", "i", "a">>, <<"Q", "C", "o", "o", "p", "e", "r", "a", "t", "i", "v", "e">>, <<"S", "p", "a", "t", "i", "a", "l", "y", "s">>, <<"3", "L", "i", "z">>}

match_threshold == 85
reverse_threshold == 90

RECURSIVE GCD(_, _)
GCD(a, b) == IF b = 0 THEN a ELSE GCD(b, a % b)

\* A similarity score num / den as a fraction in lowest terms.
Score(num, den) ==
    LET g == GCD(num, den) IN [num |-> num \div g, den |-> den \div g]

ScoreLess(p, q) == p.num * q.den < q.num * p.den
ScoreAtLeast(p, t) == p.num >= t * p.den

\* fuzz.ratio(a, b): the normalized indel similarity.
Ratio(a, b) ==
    IF Len(a) + Len(b) = 0 THEN Score(100, 1)
    ELSE Score(200 * Lcs(a, b), Len(a) + Len(b))

\* The substrings of s the shorter string is aligned with: those of length n,
\* and the shorter ones at the start and at the end of s.
Windows(s, n) ==
    {SubSeq(s, i, j) : <<i, j>> \in
        {w \in (1..Len(s)) \X (1..Len(s)) :
            /\ w[1] <= w[2]
            /\ w[2] - w[1] + 1 <= n
            /\ (w[2] - w[1] + 1 = n \/ w[1] = 1 \/ w[2] = Len(s))}}

\* fuzz.partial_ratio(a, b): the best fuzz.ratio of the shorter string
\* against a window of the longer one.
PartialRatio(a, b) ==
    LET s1 == IF Len(a) <= Len(b) THEN a ELSE b
        s2 == IF Len(a) <= Len(b) THEN b ELSE a
        scores == {Ratio(s1, w) : w \in Windows(s2, Len(s1))}
    IN  IF Len(s2) = 0 THEN Score(100, 1)
        ELSE IF Len(s1) = 0 THEN Score(0, 1)
        ELSE CHOOSE p \in scores : \A q \in scores : ~ScoreLess(p, q)

\* s.split(): the maximal runs of non-whitespace characters.
RECURSIVE Tokens(_)
Tokens(s) ==
    IF s = EmptyStr THEN <<>>
    ELSE IF Head(s) \in Whitespace THEN Tokens(Tail(s))
    ELSE LET stop == {j \in 1..Len(s) : s[j] \in Whitespace}
             end == IF stop = {} THEN Len(s) ELSE Min(stop) - 1
         IN  <<SubSeq(s, 1, end)>> \o Tokens(From(s, end + 1))

\* " ".join(tokens)
RECURSIVE Join(_)
Join(tokens) ==
    IF tokens = <<>> THEN EmptyStr
    ELSE IF Len(tokens) = 1 THEN tokens[1]
    ELSE tokens[1] \o <<" ">> \o Join(Tail(tokens))

\* fuzz.token_sort_ratio(a, b): fuzz.ratio of the strings with their tokens sorted.
TokenSortRatio(a, b) == Ratio(Join(sorted(Tokens(a))), Join(sorted(Tokens(b))))

\* Mutant of SimilarityScore: only the plain ratio is used.
SimilarityScoreRatioOnly(developer_name, ref_name) ==
    Ratio(Lower(developer_name), Lower(ref_name))

\* score = max(ratio, partial, token_sort)
SimilarityScore(developer_name, ref_name) ==
    LET ratio == Ratio(Lower(developer_name), Lower(ref_name))
        partial == PartialRatio(Lower(developer_name), Lower(ref_name))
        token_sort == TokenSortRatio(Lower(developer_name), Lower(ref_name))
        first == IF ScoreLess(ratio, partial) THEN partial ELSE ratio
    IN  IF ScoreLess(first, token_sort) THEN token_sort ELSE first

\* The loop of find_best_match from reference_names[k] on: a later name
\* replaces the best one only with a strictly greater score.
RECURSIVE BestFrom(_, _, _, _)
BestFrom(developer_name, reference_names, k, best) ==
    IF k > Len(reference_names) THEN best
    ELSE LET score == SimilarityScore(developer_name, reference_names[k])
         IN  BestFrom(developer_name, reference_names, k + 1,
                      IF ScoreLess(best.score, score)
                      THEN [match |-> reference_names[k], score |-> score]
                      ELSE best)

\* find_best_match(developer_name, reference_names, threshold=t): found is
\* whether a name is returned, match the name, score the best score.
find_best_match(developer_name, reference_names, t) ==
    LET best == BestFrom(developer_name, reference_names, 1,
                         [match |-> EmptyStr, score |-> Score(0, 1)])
    IN  [found |-> reference_names # <<>> /\ ScoreAtLeast(best.score, t),
         match |-> best.match, score |-> best.score]

\* load_reference_teams(): a file that was opened leaves a roster, the names
\* of its rows that are not blank, even when it has none (len(teams[company])
\* creates the entry); a file that is not found leaves none.
LoadedTeams(files) ==
    [company \in {c \in DOMAIN files : files[c].exists} |->
        SelectSeq([i \in DOMAIN files[company].names |-> Strip(files[company].names[i])],
                  LAMBDA name : name # EmptyStr)]

\* load_current_mapping(): company -> list of (developer, features).
RECURSIVE LoadedMapping(_)
LoadedMapping(data) ==
    IF data = <<>> THEN <<>>
    ELSE LET front == LoadedMapping(SubSeq(data, 1, Len(data) - 1))
             row == data[Len(data)]
             entry == [dev |-> row.developer, features |-> row.feature_count]
         IN  IF row.company \in DOMAIN front
             THEN [front EXCEPT ![row.company] = Append(@, entry)]
             ELSE front @@ (row.company :> <<entry>>)

\* bucket[company].append(entry) for every entry, on a defaultdict(list).
AppendAll(bucket, company, entries) ==
    IF entries = <<>> THEN bucket
    ELSE IF company \in DOMAIN bucket THEN [bucket EXCEPT ![company] = @ \o entries]
    ELSE bucket @@ (company :> entries)

\* The developers of a company that are exact matches, with score 100.
ValidatedOf(developers, ref_names) ==
    LET exact == SelectSeq(developers, LAMBDA d : \E k \in DOMAIN ref_names : ref_names[k] = d.dev)
    IN  [i \in DOMAIN exact |-> [dev |-> exact[i].dev, features |-> exact[i].features,
                                 score |-> Score(100, 1)]]

\* The developers that are not exact matches, each with its best match.
FuzzyOf(developers, ref_names) ==
    LET other == SelectSeq(developers, LAMBDA d : \A k \in DOMAIN ref_names : ref_names[k] # d.dev)
    IN  [i \in DOMAIN other |->
            [dev |-> other[i].dev, features |-> other[i].features,
             best |-> find_best_match(other[i].dev, ref_names, match_threshold)]]

SuggestionsOf(developers, ref_names) ==
    LET similar == SelectSeq(FuzzyOf(developers, ref_names), LAMBDA d : d.best.found)
    IN  [i \in DOMAIN similar |->
            [dev |-> similar[i].dev, match |-> similar[i].best.match,
             score |-> similar[i].best.score, features |-> similar[i].features]]

\* The entries of not_in_reference: the note is "Best match score" with the
\* score, or "No reference data".
NotInReferenceOf(developers, ref_names) ==
    LET far == SelectSeq(FuzzyOf(developers, ref_names), LAMBDA d : ~d.best.found)
    IN  [i \in DOMAIN far |->
            [dev |-> far[i].dev, features |-> far[i].features,
             note |-> "Best match score", score |-> far[i].best.score]]

NoReferenceData(developers) ==
    [i \in DOMAIN developers |->
        [dev |-> developers[i].dev, features |-> developers[i].features,
         note |-> "No reference data", score |-> Score(0, 1)]]

\* found: some mapped developer has fuzz.ratio >= 90 with the reference name.
IsCovered(ref_name, developers) ==
    \E i \in DOMAIN developers :
        RatioAtLeast(Lower(ref_name), Lower(developers[i].dev), reverse_threshold)

\* The names in the reference list that no mapped developer matches.
MissingOf(developers, ref_names) ==
    SelectSeq(ref_names, LAMBDA ref_name : ~IsCovered(ref_name, developers))

\* Companies and developers of the mapping, cells of the roster file.
MappedCompanies == {<<"A", "c", "m", "e">>, <<"K", "a", "r", "t", "o", "z", "a">>}
MappedDevelopers == {<<"A", "n", "n", " ", "L", "e", "e">>, <<"A", "n", "n", " ", "L", "e">>, <<"A", "n", "n", " ", "L">>, <<"L", "e", "e", " ", "A", "n", "n">>, <<"A", "n", "n", " ", "M", " ", "L", "e", "e">>}
RosterCells == {<<"A", "n", "n", " ", "L", "e", "e">>, <<"B", "o", " ", "L", "i", "m">>, EmptyStr}

NoFile == [exists |-> FALSE, names |-> <<>>]

\* validate_mappings() starts: the team file of Kartoza may be absent, empty
\* or hold up to MaxRoster rows; the other team files are absent.
InitValidate ==
    /\ mode = "validate"
    /\ \E roster \in {NoFile} \cup {[exists |-> TRUE, names |-> r] :
                                      r \in SeqsUpTo(RosterCells, MaxRoster)} :
           team_files = [c \in TEAM_FILES |-> IF c = <<"K", "a", "r", "t", "o", "z", "a">> THEN roster ELSE NoFile]
    /\ \/ mapping_csv = [exists |-> FALSE, rows |-> <<>>]
       \/ \E t \in LinkTables(MappedCompanies, MappedDevelopers, {1}, MaxMapped) :
              mapping_csv = [exists |-> TRUE, rows |-> t]
    /\ vpc = "start"
    /\ reference_teams = <<>> /\ current_mapping = <<>> /\ mapping_order = <<>>
    /\ vi = 0
    /\ validated = <<>> /\ suggestions = <<>>
    /\ not_in_reference = <<>> /\ missing_from_mapping = <<>>
    /\ ExtractIdle /\ ClusterIdle /\ NormalizeIdle /\ AggregateIdle
    /\ CallsIdle /\ ReconcileIdle /\ DownloadIdle

\* The reference teams and the current mapping are loaded; without a mapping
\* validate_mappings returns.
LoadValidationData ==
    /\ mode = "validate" /\ vpc = "start"
    /\ reference_teams' = LoadedTeams(team_files)
    /\ current_mapping' = LoadedMapping(mapping_csv.rows)
    /\ mapping_order' =
           UniqueNames([i \in DOMAIN mapping_csv.rows |-> mapping_csv.rows[i].company])
    /\ vpc' = IF mapping_csv.exists /\ mapping_csv.rows # <<>> THEN "loop" ELSE "returned"
    /\ UNCHANGED <<mode, team_files, mapping_csv, vi, validated, suggestions,
                   not_in_reference, missing_from_mapping>>
    /\ UNCHANGED <<varsExtract, varsCluster, varsNormalize, varsAggregate, varsCalls, varsReconcile, varsDownload>>

\* for company, developers in current_mapping.items(): one iteration.
ValidateCompany ==
    /\ mode = "validate" /\ vpc = "loop" /\ vi < Len(mapping_order)
    /\ LET company == mapping_order[vi + 1]
           developers == current_mapping[company]
       IN  IF company \notin DOMAIN reference_teams
           THEN /\ not_in_reference' =
                       AppendAll(not_in_reference, company, NoReferenceData(developers))
                /\ UNCHANGED <<validated, suggestions, missing_from_mapping>>
           ELSE \E ref_names \in {reference_teams[company]} :
                /\ validated' = AppendAll(validated, company, ValidatedOf(developers, ref_names))
                /\ suggestions' =
                       AppendAll(suggestions, company, SuggestionsOf(developers, ref_names))
                /\ not_in_reference' =
                       AppendAll(not_in_reference, company,
                                 NotInReferenceOf(developers, ref_names))
                /\ missing_from_mapping' =
                       AppendAll(missing_from_mapping, company,
                                 MissingOf(developers, ref_names))
    /\ vi' = vi + 1
    /\ UNCHANGED <<mode, team_files, mapping_csv, vpc, reference_teams, current_mapping,
                   mapping_order>>
    /\ UNCHANGED <<varsExtract, varsCluster, varsNormalize, varsAggregate, varsCalls, varsReconcile, varsDownload>>

\* The loop is over and the validation report is written.
GenerateReport ==
    /\ mode = "validate" /\ vpc = "loop" /\ vi = Len(mapping_order)
    /\ vpc' = "done"
    /\ UNCHANGED <<mode, team_files, mapping_csv, reference_teams, current_mapping,
                   mapping_order, vi, validated, suggestions, not_in_reference,
                   missing_from_mapping>>
    /\ UNCHANGED <<varsExtract, varsCluster, varsNormalize, varsAggregate, varsCalls, varsReconcile, varsDownload>>

NextValidate == LoadValidationData \/ ValidateCompany \/ GenerateReport

SpecValidate == InitValidate /\ [][NextValidate]_vars

(***************************************************************************)
(* extract_features_from_zips.py: its copy of normalize_developer_name     *)
(***************************************************************************)
\* Mutant of zips_patterns_to_remove: the copy has lost the pattern (North).
zips_patterns_without_north ==
    << <<"(", "N", "o", "r", "t", "h", " ", "R", "o", "a", "d", ")">>, <<"(", "L", "u", "t", "r", "a", " ", "C", "o", "n", "s", "u", "l", "t", "i", "n", "g", ")">>, <<"(", "L", "u", "t", "r", "a", ")">>,
       <<"(", "O", "P", "E", "N", "G", "I", "S", ".", "c", "h", ")">>, <<"(", "K", "a", "r", "t", "o", "z", "a", ")">>, <<"(", "O", "s", "l", "a", "n", "d", "i", "a", ")">>, <<"(", "O", "S", "L", "A", "N", "D", "I", "A", ")">>,
       <<"(", "F", "a", "u", "n", "a", "l", "i", "a", ")">>, <<"(", "w", "w", "w", ".", "k", "a", "r", "t", "o", "z", "a", ".", "c", "o", "m", ")">> >>

\* patterns_to_remove of the copy, in the order of its list.
zips_patterns_to_remove ==
    << <<"(", "N", "o", "r", "t", "h", " ", "R", "o", "a", "d", ")">>, <<"(", "N", "o", "r", "t", "h", ")">>, <<"(", "L", "u", "t", "r", "a", " ", "C", "o", "n", "s", "u", "l", "t", "i", "n", "g", ")">>, <<"(", "L", "u", "t", "r", "a", ")">>,
       <<"(", "O", "P", "E", "N", "G", "I", "S", ".", "c", "h", ")">>, <<"(", "K", "a", "r", "t", "o", "z", "a", ")">>, <<"(", "O", "s", "l", "a", "n", "d", "i", "a", ")">>, <<"(", "O", "S", "L", "A", "N", "D", "I", "A", ")">>,
       <<"(", "F", "a", "u", "n", "a", "l", "i", "a", ")">>, <<"(", "w", "w", "w", ".", "k", "a", "r", "t", "o", "z", "a", ".", "c", "o", "m", ")">> >>

\* for pattern in patterns_to_remove, then the parenthesised URL, in the copy.
RECURSIVE ZipsRemovePatterns(_, _)
ZipsRemovePatterns(name, k) ==
    IF k > Len(zips_patterns_to_remove) THEN SubUrlParen(name)
    ELSE ZipsRemovePatterns(SubWsLiteral(name, zips_patterns_to_remove[k]), k + 1)

\* The rules of the copy on the cleaned, non-empty name, in the order of its code.
ZipsMatchedRule(name) ==
    LET name_lower == Lower(name)
    IN  IF name_lower = <<"n", "o", "r", "t", "h", " ", "r", "o", "a", "d">> THEN <<"N", "y", "a", "l", "l", " ", "D", "a", "w", "s", "o", "n">>
        ELSE IF Contains(name_lower, <<"j", "e", "f", "-", "n">>) \/ name_lower = <<"j", "e", "f", "-", "n">> THEN <<"J", "U+00FC", "r", "g", "e", "n", " ", "F", "i", "s", "c", "h", "e", "r">>
        ELSE IF Contains(name_lower, <<"j", "u", "e", "r", "g", "e", "n">>) \/ Contains(name_lower, <<"j", "U+00FC", "r", "g", "e", "n">>)
            THEN <<"J", "U+00FC", "r", "g", "e", "n", " ", "F", "i", "s", "c", "h", "e", "r">>
        ELSE IF Contains(name_lower, <<"l", "u", "t", "r", "a">>) THEN <<"L", "u", "t", "r", "a", " ", "C", "o", "n", "s", "u", "l", "t", "i", "n", "g">>
        ELSE IF StartsWith(name_lower, <<"d", "e", "n", "i", "s">>) THEN <<"D", "e", "n", "i", "s", " ", "R", "o", "u", "z", "a", "u", "d">>
        ELSE IF StartsWith(name_lower, <<"e", "t", "i", "e", "n", "n", "e">>) \/ StartsWith(name_lower, <<"U+00E9", "t", "i", "e", "n", "n", "e">>)
            THEN <<"U+00C9", "t", "i", "e", "n", "n", "e", " ", "T", "r", "i", "m", "a", "i", "l", "l", "e">>
        ELSE IF (StartsWith(name_lower, <<"m", "a", "t", "t", "e", "o", " ", "g", "h", "e", "t", "t", "a">>) \/ StartsWith(name_lower, <<"m", "a", "t", "t", "e", "o">>))
                /\ (Contains(name_lower, <<"g", "h", "e", "t", "t", "a">>) \/ name_lower = <<"m", "a", "t", "t", "e", "o">>)
            THEN <<"M", "a", "t", "t", "e", "o", " ", "G", "h", "e", "t", "t", "a">>
        ELSE IF FirstNameRule(name_lower, <<"a", "n", "d", "r", "e", "a">>, <<"g", "i", "u", "d", "i", "c", "e", "a", "n", "d", "r", "e", "a">>) THEN <<"A", "n", "d", "r", "e", "a", " ", "G", "i", "u", "d", "i", "c", "e", "a", "n", "d", "r", "e", "a">>
        ELSE IF FirstNameRule(name_lower, <<"i", "s", "m", "a", "i", "l">>, <<"s", "u", "n", "n", "i">>) THEN <<"I", "s", "m", "a", "i", "l", " ", "S", "u", "n", "n", "i">>
        ELSE IF FirstNameRule(name_lower, <<"n", "a", "t", "h", "a", "n">>, <<"w", "o", "o", "d", "r", "o", "w">>) THEN <<"N", "a", "t", "h", "a", "n", " ", "W", "o", "o", "d", "r", "o", "w">>
        ELSE IF FirstNameRule(name_lower, <<"m", "a", "r", "c", "o">>, <<"b", "e", "r", "n", "a", "s", "o", "c", "c", "h", "i">>) THEN <<"M", "a", "r", "c", "o", " ", "B", "e", "r", "n", "a", "s", "o", "c", "c", "h", "i">>
        ELSE IF FirstNameRule(name_lower, <<"s", "a", "l", "v", "a", "t", "o", "r", "e">>, <<"l", "a", "r", "o", "s", "a">>) THEN <<"S", "a", "l", "v", "a", "t", "o", "r", "e", " ", "L", "a", "r", "o", "s", "a">>
        ELSE IF Contains(name_lower, <<"n", "y", "a", "l", "l">>) THEN <<"N", "y", "a", "l", "l", " ", "D", "a", "w", "s", "o", "n">>
        ELSE IF Contains(name_lower, <<"m", "a", "t", "h", "i", "e", "u">>) THEN <<"M", "a", "t", "h", "i", "e", "u", " ", "P", "e", "l", "l", "e", "r", "i", "n">>
        ELSE IF \/ name_lower = <<"a", "l", "e", "s", "s", "a", "n", "d", "r", "o">>
                \/ (StartsWith(name_lower, <<"a", "l", "e", "s", "s", "a", "n", "d", "r", "o">>) /\ ~Contains(name_lower, <<"p", "a", "s", "o", "t", "t", "i">>))
                \/ (Contains(name_lower, <<"a", "l", "e", "s", "s", "a", "n", "d", "r", "o">>) /\ Contains(name_lower, <<"p", "a", "s", "o", "t", "t", "i">>))
            THEN <<"A", "l", "e", "s", "s", "a", "n", "d", "r", "o", " ", "P", "a", "s", "o", "t", "t", "i">>
        ELSE IF name_lower \in {<<"a", "l", "e", "x", "a", "n", "d", "e", "r">>, <<"a", "l", "e", "x", " ", "b", "r", "u", "y">>, <<"a", "l", "e", "x", "a", "n", "d", "e", "r", " ", "b", "r", "u", "y">>}
            THEN <<"A", "l", "e", "x", "a", "n", "d", "e", "r", " ", "B", "r", "u", "y">>
        ELSE IF (StartsWith(name_lower, <<"a", "l", "e", "x", "a", "n", "d", "e", "r">>) \/ StartsWith(name_lower, <<"a", "l", "e", "x">>))
                /\ Contains(name_lower, <<"b", "r", "u", "y">>)
            THEN <<"A", "l", "e", "x", "a", "n", "d", "e", "r", " ", "B", "r", "u", "y">>
        ELSE IF FirstNameRule(name_lower, <<"e", "v", "e", "n">>, <<"r", "o", "u", "a", "u", "l", "t">>) THEN <<"E", "v", "e", "n", " ", "R", "o", "u", "a", "u", "l", "t">>
        ELSE IF Contains(name_lower, <<"l", "o", "U+00EF", "c">>) \/ Contains(name_lower, <<"l", "o", "i", "c">>)
            THEN <<"L", "o", "U+00EF", "c", " ", "B", "a", "r", "t", "o", "l", "e", "t", "t", "i">>
        ELSE IF FirstNameRule(name_lower, <<"m", "a", "r", "t", "i", "n">>, <<"d", "o", "b", "i", "a", "s">>) THEN <<"M", "a", "r", "t", "i", "n", " ", "D", "o", "b", "i", "a", "s">>
        ELSE IF FirstNameRule(name_lower, <<"m", "a", "t", "t", "h", "i", "a", "s">>, <<"k", "u", "h", "n">>) THEN <<"M", "a", "t", "t", "h", "i", "a", "s", " ", "K", "u", "h", "n">>
        ELSE IF FirstNameRule(name_lower, <<"j", "u", "l", "i", "e", "n">>, <<"c", "a", "b", "i", "e", "c", "e", "s">>) THEN <<"J", "u", "l", "i", "e", "n", " ", "C", "a", "b", "i", "e", "c", "e", "s">>
        ELSE IF name_lower \in {<<"p", "a", "u", "l">>, <<"p", "a", "u", " ", "b", "l", "o", "t", "t", "i", "e", "r", "e">>} THEN <<"P", "a", "u", "l", " ", "B", "l", "o", "t", "t", "i", "e", "r", "e">>
        ELSE IF Contains(name_lower, <<"p", "a", "u", "l">>) /\ Contains(name_lower, <<"b", "l", "o", "t", "t", "i", "e", "r", "e">>)
            THEN <<"P", "a", "u", "l", " ", "B", "l", "o", "t", "t", "i", "e", "r", "e">>
        ELSE IF Contains(name_lower, <<"p", "a", "u">>) /\ Contains(name_lower, <<"b", "l", "o", "t", "t", "i", "e", "r", "e">>)
            THEN <<"P", "a", "u", "l", " ", "B", "l", "o", "t", "t", "i", "e", "r", "e">>
        ELSE IF FirstNameRule(name_lower, <<"s", "a", "n", "d", "r", "o">>, <<"s", "a", "n", "t", "i", "l", "l", "i">>) THEN <<"S", "a", "n", "d", "r", "o", " ", "S", "a", "n", "t", "i", "l", "l", "i">>
        ELSE NoRule

\* normalize_developer_name(name) of extract_features_from_zips.py
zips_normalize_developer_name(name) ==
    LET name_lower == Lower(name)
        stripped == Strip(SubCollaboration(SubOslandiaPrefix(ZipsRemovePatterns(name, 1))))
        spaced == Strip(SubSpaces(stripped))
        uncomma == Strip(RStripChars(spaced, {","}))
        unslashed == Strip(SubTrailingSlash(uncomma))
    IN  IF name = EmptyStr \/ name = NotSpecified THEN name
        ELSE IF Contains(name_lower, <<"o", "p", "e", "n", "g", "i", "s", ".", "c", "h">>) \/ Contains(name_lower, <<"o", "p", "e", "n", "g", "i", "s">>)
            THEN <<"O", "P", "E", "N", "G", "I", "S", ".", "c", "h">>
        ELSE IF Contains(name_lower, <<"k", "a", "r", "t", "o", "z", "a">>) THEN <<"K", "a", "r", "t", "o", "z", "a">>
        ELSE IF stripped = EmptyStr THEN NotSpecified
        ELSE IF ZipsMatchedRule(stripped) # NoRule THEN ZipsMatchedRule(stripped)
        ELSE IF unslashed = EmptyStr THEN NotSpecified
        ELSE unslashed

(***************************************************************************)
(* normalize_developers.py: extract_developer_name                         *)
(***************************************************************************)
\* The value None.
None == <<"None">>

\* extract_developer_name(developer_string)
extract_developer_name(developer_string) ==
    LET unquoted == Strip(StripChars(developer_string, {"\""}))
        match == SearchNameParen(unquoted)
        first == Strip(match.g1)
        second == Strip(match.g2)
        keywords == {<<"l", "u", "t", "r", "a">>, <<"o", "p", "e", "n", "g", "i", "s">>, <<"o", "s", "l", "a", "n", "d", "i", "a">>, <<"k", "a", "r", "t", "o", "z", "a">>, <<"n", "o", "r", "t", "h", " ", "r", "o", "a", "d">>,
                     <<"f", "a", "u", "n", "a", "l", "i", "a">>, <<"q", "c", "o", "o", "p", "e", "r", "a", "t", "i", "v", "e">>, <<"s", "p", "a", "t", "i", "a", "l", "y", "s">>, <<"3", "l", "i", "z">>, <<"q", "g", "i", "s">>,
                     <<"c", "o", "n", "s", "u", "l", "t", "i", "n", "g">>, <<"g", "m", "b", "h">>, <<"s", "a", "r", "l">>}
    IN  IF developer_string = EmptyStr \/ developer_string = NotSpecified THEN None
        ELSE IF \E sep \in {<<" ", "&", " ">>, <<" ", "a", "n", "d", " ">>, <<",", " ">>} : Contains(unquoted, sep) THEN unquoted
        ELSE IF ~match.matched THEN unquoted
        ELSE IF \E kw \in keywords : Contains(Lower(first), kw) THEN second
        ELSE first

(***************************************************************************)
(* The functions of the pipeline called on one text                        *)
(***************************************************************************)
\* Company names: the keys and the values of company_mappings, in other
\* casings and with the parts normalize_company_name removes, and others.
CompanyTexts ==
    {kv[1] : kv \in company_mappings} \cup {kv[2] : kv \in company_mappings}
        \cup {<<"K", "A", "R", "T", "O", "Z", "A">>, <<" ", " ", "L", "u", "t", "r", "a", " ", "(", "U", "K", ")", " ">>, <<"O", "p", "e", "n", "G", "I", "S", ".", "c", "h", " ", "@", "f", "o", "o">>, <<"A", "c", "m", "e", " ", " ", "*", "*", "C", "o", "r", "p", "*", "*">>,
              <<"*", "*", "A", "R", "P", "A", " ", "P", "i", "e", "m", "o", "n", "t", "e", "*", "*">>, <<"A", "c", "m", "e", " ", "(", "U", "K", ")">>, <<"a", " ", " ", "b">>, <<" ", "x", " ", "*", "*", " ">>, <<"K", "a", "r", "t", "o", "z", "a", " ", "(", "x">>,
              <<"@">>, <<"*", "*">>, <<"A", "c", "m", "e">>}

\* The halves of the records "A (B)".
RecordHalves ==
    {<<"B", "o", "b">>, <<"K", "a", "r", "t", "o", "z", "a">>, <<"Q", "G", "I", "S">>, <<"N", "o", "r", "t", "h", " ", "R", "o", "a", "d">>, <<"3", " ", "L", "i", "z">>, <<"A", "c", "m", "e">>,
     <<"A", "c", "m", "e", " ", "G", "m", "b", "H">>, <<"A", "c", "m", "e", " ", "C", "o", "n", "s", "u", "l", "t", "i", "n", "g">>}

\* Records of the form "A (B)".
ParenRecords == {a \o <<" ", "(">> \o b \o <<")">> : <<a, b>> \in RecordHalves \X RecordHalves}

CallTexts == CompanyTexts \cup ParenRecords \cup NormalizeInputs

\* A text is given; no function has been called on it.
InitCalls ==
    /\ mode = "calls"
    /\ call_text \in CallTexts
    /\ calls_done = {}
    /\ company_out = <<>> /\ person_out = <<>> /\ link_out = NoLink
    /\ features_out = <<>> /\ zips_out = <<>>
    /\ ExtractIdle /\ ClusterIdle /\ NormalizeIdle /\ AggregateIdle /\ ValidateIdle
    /\ ReconcileIdle /\ DownloadIdle

\* normalize_company_name(company)
CallNormalizeCompany ==
    /\ mode = "calls" /\ "company" \notin calls_done
    /\ company_out' = normalize_company_name(call_text)
    /\ calls_done' = calls_done \cup {"company"}
    /\ UNCHANGED <<mode, call_text, person_out, link_out, features_out, zips_out>>
    /\ UNCHANGED <<varsExtract, varsCluster, varsNormalize, varsAggregate, varsValidate,
                   varsReconcile, varsDownload>>

\* The record is given to extract_developer_name and to the loop body of
\* extract_companies_developers.
CallDisambiguations ==
    /\ mode = "calls" /\ "disambiguate" \notin calls_done
    /\ person_out' = extract_developer_name(call_text)
    /\ link_out' = RowLink(call_text)
    /\ calls_done' = calls_done \cup {"disambiguate"}
    /\ UNCHANGED <<mode, call_text, company_out, features_out, zips_out>>
    /\ UNCHANGED <<varsExtract, varsCluster, varsNormalize, varsAggregate, varsValidate,
                   varsReconcile, varsDownload>>

\* The name is given to both copies of normalize_developer_name.
CallBothCopies ==
    /\ mode = "calls" /\ "normalize" \notin calls_done
    /\ features_out' = normalize_developer_name(call_text)
    /\ zips_out' = zips_normalize_developer_name(call_text)
    /\ calls_done' = calls_done \cup {"normalize"}
    /\ UNCHANGED <<mode, call_text, company_out, person_out, link_out>>
    /\ UNCHANGED <<varsExtract, varsCluster, varsNormalize, varsAggregate, varsValidate,
                   varsReconcile, varsDownload>>

SpecCalls == InitCalls /\ [][CallNormalizeCompany \/ CallDisambiguations \/ CallBothCopies]_vars

(***************************************************************************)
(* normalize_developers.py: normalize_developers                           *)
(***************************************************************************)
\* normalize_name_basic(name)
normalize_name_basic(name) ==
    LET normalizations == {
            <<<<"M", "a", "r", "t", "i", "a", "n", " ", "D", "o", "b", "i", "a", "s">>, <<"M", "a", "r", "t", "i", "n", " ", "D", "o", "b", "i", "a", "s">>>>,
            <<<<"A", "l", "e", "x", " ", "B", "r", "u", "y">>, <<"A", "l", "e", "x", "a", "n", "d", "e", "r", " ", "B", "r", "u", "y">>>>,
            <<<<"B", "e", "l", "g", "a", "c", "e", "m", " ", "N", "e", "d", "j", "i", "m", "a">>, <<"N", "e", "d", "j", "i", "m", "a", " ", "B", "e", "l", "g", "a", "c", "e", "m">>>>,
            <<<<"N", "y", "a", "l", "l", " ", "D", "a", "w", "s", "o", "n">>, <<"N", "y", "a", "l", "l", " ", "D", "a", "w", "s", "o", "n">>>>,
            <<<<"M", "a", "t", "t", "h", "i", "a", "s", " ", "K", "u", "h", "n">>, <<"M", "a", "t", "t", "h", "i", "a", "s", " ", "K", "u", "h", "n">>>>,
            <<<<"M", "a", "r", "t", "i", "n", " ", "D", "o", "b", "i", "a", "U+0161">>, <<"M", "a", "r", "t", "i", "n", " ", "D", "o", "b", "i", "a", "s">>>>,
            <<<<"L", "o", "U+00EF", "c", " ", "B", "a", "r", "t", "o", "l", "e", "t", "t", "i">>, <<"L", "o", "U+00EF", "c", " ", "B", "a", "r", "t", "o", "l", "e", "t", "t", "i">>>>,
            <<<<"L", "o", "i", "c", " ", "B", "a", "r", "t", "o", "l", "e", "t", "t", "i">>, <<"L", "o", "U+00EF", "c", " ", "B", "a", "r", "t", "o", "l", "e", "t", "t", "i">>>>,
            <<<<"M", "a", "t", "h", "i", "e", "u", " ", "P", "e", "l", "l", "e", "r", "i", "n">>, <<"M", "a", "t", "h", "i", "e", "u", " ", "P", "e", "l", "l", "e", "r", "i", "n">>>>,
            <<<<"G", "e", "r", "m", "U+00E1", "n", " ", "C", "a", "r", "r", "i", "l", "l", "o">>, <<"G", "e", "r", "m", "U+00E1", "n", " ", "C", "a", "r", "r", "i", "l", "l", "o">>>>,
            <<<<"G", "e", "r", "m", "a", "n", " ", "C", "a", "r", "r", "i", "l", "l", "o">>, <<"G", "e", "r", "m", "U+00E1", "n", " ", "C", "a", "r", "r", "i", "l", "l", "o">>>>,
            <<<<"R", "e", "n", "U+00E9", "-", "L", "u", "c", " ", "D", "'", "H", "o", "n", "t">>, <<"R", "e", "n", "U+00E9", "-", "L", "u", "c", " ", "D", "'", "H", "o", "n", "t">>>>,
            <<<<"R", "e", "n", "e", "-", "L", "u", "c", " ", "D", "'", "H", "o", "n", "t">>, <<"R", "e", "n", "U+00E9", "-", "L", "u", "c", " ", "D", "'", "H", "o", "n", "t">>>>,
            <<<<"A", "l", "e", "s", "s", "a", "n", "d", "r", "o", " ", "P", "a", "s", "o", "t", "t", "i">>, <<"A", "l", "e", "s", "s", "a", "n", "d", "r", "o", " ", "P", "a", "s", "o", "t", "t", "i">>>>,
            <<<<"S", "a", "n", "d", "r", "o", " ", "S", "a", "n", "t", "i", "l", "l", "i">>, <<"S", "a", "n", "d", "r", "o", " ", "S", "a", "n", "t", "i", "l", "l", "i">>>> }
        joined == Strip(SubSpaces(name))
        known == {kv \in normalizations : kv[1] = joined}
    IN  IF name = EmptyStr THEN name
        ELSE IF known # {} THEN (CHOOSE kv \in known : TRUE)[2]
        ELSE joined

\* The outer loop of find_fuzzy_clusters from the k-th unique name on.
RECURSIVE ClusterFrom(_, _, _, _, _, _)
ClusterFrom(uniques, counts, k, mapping, assigned, t) ==
    IF k > Len(uniques) THEN mapping
    ELSE LET name == uniques[k]
             similar == SimilarSorted(name, uniques, counts, assigned, t)
             members == {similar[i].name : i \in DOMAIN similar}
         IN  IF name \in assigned \/ Len(similar) = 1
             THEN ClusterFrom(uniques, counts, k + 1, mapping, assigned, t)
             ELSE ClusterFrom(uniques, counts, k + 1,
                              MapVariants(mapping, members, similar[1].name),
                              assigned \cup members, t)

\* find_fuzzy_clusters(names, threshold): the mapping it returns.
find_fuzzy_clusters(seq, t) ==
    LET kept == NonEmptyNames(seq)
    IN  IF kept = <<>> THEN <<>>
        ELSE ClusterFrom(UniqueNames(kept),
                         [n \in {kept[i] : i \in DOMAIN kept} |-> CountOf(kept, n)],
                         1, <<>>, {}, t)

\* name = extract_developer_name(dev); if name: name = normalize_name_basic(name)
\* None when the row gives no clean name.
CleanNameOf(dev) ==
    LET name == extract_developer_name(dev)
    IN  IF name = None \/ name = EmptyStr THEN None ELSE normalize_name_basic(name)

\* Step 4 on one row: the value of developed_by after the row is handled.
RewrittenRow(original, mapping) ==
    LET clean_name == CleanNameOf(original)
        n == Len(original)
        \* re.search(r'\(([^)]+)\)$', original): the possible starts of the match
        opens == {q \in 1..(n - 2) :
                      original[q] = "(" /\ \A j \in (q + 1)..(n - 1) : original[j] # ")"}
        match == IF n = 0 \/ original[n] # ")" \/ opens = {}
                 THEN [matched |-> FALSE, g1 |-> EmptyStr]
                 ELSE [matched |-> TRUE, g1 |-> SubSeq(original, Min(opens) + 1, n - 1)]
    IN  IF original = EmptyStr \/ original = NotSpecified THEN original
        ELSE IF clean_name = None THEN original
        ELSE IF clean_name \notin DOMAIN mapping THEN original
        ELSE IF match.matched THEN mapping[clean_name] \o <<" ", "(">> \o match.g1 \o <<")">>
        ELSE mapping[clean_name]

\* Values of developed_by in the input CSV.
RawPool ==
    {EmptyStr, NotSpecified, <<"A", "l", "i", "c", "e", " ", "&", " ", "B", "o", "b">>, <<"A", "l", "i", "c", "e", " ", "&", " ", "b", "o", "b">>, <<"B", "o", "b", " ", "(", "A", "c", "m", "e", ")">>,
     <<"B", "o", "b", "b", " ", "(", "A", "c", "m", "e", ")">>, <<"K", "a", "r", "t", "o", "z", "a", " ", "(", "B", "o", "b", "b", ")">>, <<"B", "o", "b">>, <<"B", "o", "b", " ", "w", "i", "t", "h", " ", "B", "o", "b", "b">>}

\* normalize_developers() starts: the input CSV is absent or holds up to
\* MaxRaw rows.
InitReconcile ==
    /\ mode = "reconcile"
    /\ raw_rows \in {[exists |-> FALSE, rows |-> <<>>]}
                        \cup {[exists |-> TRUE, rows |-> r] : r \in SeqsUpTo(RawPool, MaxRaw)}
    /\ rpc = "read"
    /\ clean_names = <<>> /\ fuzzy_mapping = <<>> /\ out_rows = <<>> /\ rw_i = 0
    /\ ExtractIdle /\ ClusterIdle /\ NormalizeIdle /\ AggregateIdle /\ ValidateIdle
    /\ CallsIdle /\ DownloadIdle

\* Steps 1 to 3: the rows are read, the clean names extracted and the fuzzy
\* mapping computed; without the input file the function returns.
ReadAndCluster ==
    /\ mode = "reconcile" /\ rpc = "read"
    /\ IF ~raw_rows.exists
       THEN /\ rpc' = "returned"
            /\ UNCHANGED <<clean_names, fuzzy_mapping, out_rows>>
       ELSE LET all_developers ==
                    SelectSeq(raw_rows.rows, LAMBDA dev : dev # EmptyStr /\ dev # NotSpecified)
                extracted == SelectSeq(all_developers, LAMBDA dev : CleanNameOf(dev) # None)
                cleaned == [i \in DOMAIN extracted |-> CleanNameOf(extracted[i])]
            IN  /\ clean_names' = cleaned
                /\ fuzzy_mapping' = find_fuzzy_clusters(cleaned, SIMILARITY_THRESHOLD)
                /\ out_rows' = raw_rows.rows
                /\ rpc' = "apply"
    /\ UNCHANGED <<mode, raw_rows, rw_i>>
    /\ UNCHANGED <<varsExtract, varsCluster, varsNormalize, varsAggregate, varsValidate,
                   varsCalls, varsDownload>>

\* Step 4, for row in rows: one row.
ApplyRow ==
    /\ mode = "reconcile" /\ rpc = "apply" /\ rw_i < Len(out_rows)
    /\ out_rows' = [out_rows EXCEPT ![rw_i + 1] = RewrittenRow(@, fuzzy_mapping)]
    /\ rw_i' = rw_i + 1
    /\ UNCHANGED <<mode, raw_rows, rpc, clean_names, fuzzy_mapping>>
    /\ UNCHANGED <<varsExtract, varsCluster, varsNormalize, varsAggregate, varsValidate,
                   varsCalls, varsDownload>>

\* Steps 5 and 6: the rows and the mapping are saved.
SaveRows ==
    /\ mode = "reconcile" /\ rpc = "apply" /\ rw_i = Len(out_rows)
    /\ rpc' = "saved"
    /\ UNCHANGED <<mode, raw_rows, clean_names, fuzzy_mapping, out_rows, rw_i>>
    /\ UNCHANGED <<varsExtract, varsCluster, varsNormalize, varsAggregate, varsValidate,
                   varsCalls, varsDownload>>

SpecReconcile == InitReconcile /\ [][ReadAndCluster \/ ApplyRow \/ SaveRows]_vars

(***************************************************************************)
(* download_qgis_zips.py                                                   *)
(***************************************************************************)
\* A URL is a pair of what precedes /version/ and the part between /version/
\* and /md/.  extract_version_from_url(url)
extract_version_from_url(url) == url[2]

\* The changelog URLs of the configuration file: two of them give the same version.
UrlPool == {<<"changelog", "3.0">>, <<"mirror", "3.0">>, <<"changelog", "3.2">>}

Versions == {extract_version_from_url(url) : url \in UrlPool}

\* The download directory is empty and changelog_urls.txt holds up to MaxUrls
\* URLs; main has not been called.
InitDownload ==
    /\ mode = "download"
    /\ changelog_urls \in SeqsUpTo(UrlPool, MaxUrls)
    /\ dpc = "start"
    /\ download_dir = [v \in Versions |-> "absent"]
    /\ url_i = 0 /\ drun = 0
    /\ total_attempts = 0 /\ successful_downloads = 0 /\ skipped = 0
    /\ ExtractIdle /\ ClusterIdle /\ NormalizeIdle /\ AggregateIdle /\ ValidateIdle
    /\ CallsIdle /\ ReconcileIdle

\* main() is called: it returns when there is no URL, else the counters are
\* set to zero and the loop starts.
StartMain ==
    /\ mode = "download"
    /\ dpc = "start" \/ (dpc = "done" /\ drun < MaxRuns)
    /\ drun' = drun + 1
    /\ dpc' = IF changelog_urls = <<>> THEN "done" ELSE "loop"
    /\ url_i' = 0
    /\ total_attempts' = 0 /\ successful_downloads' = 0 /\ skipped' = 0
    /\ UNCHANGED <<mode, changelog_urls, download_dir>>
    /\ UNCHANGED <<varsExtract, varsCluster, varsNormalize, varsAggregate, varsValidate,
                   varsCalls, varsReconcile>>

\* if os.path.exists(destination): skipped += 1; continue
SkipExisting ==
    /\ mode = "download" /\ dpc = "loop" /\ url_i < Len(changelog_urls)
    /\ download_dir[extract_version_from_url(changelog_urls[url_i + 1])] # "absent"
    /\ skipped' = skipped + 1
    /\ url_i' = url_i + 1
    /\ UNCHANGED <<mode, changelog_urls, dpc, download_dir, drun, total_attempts,
                   successful_downloads>>
    /\ UNCHANGED <<varsExtract, varsCluster, varsNormalize, varsAggregate, varsValidate,
                   varsCalls, varsReconcile>>

\* if not check_url_exists(url): continue
UrlNotAccessible ==
    /\ mode = "download" /\ dpc = "loop" /\ url_i < Len(changelog_urls)
    /\ download_dir[extract_version_from_url(changelog_urls[url_i + 1])] = "absent"
    /\ url_i' = url_i + 1
    /\ UNCHANGED <<mode, changelog_urls, dpc, download_dir, drun, total_attempts,
                   successful_downloads, skipped>>
    /\ UNCHANGED <<varsExtract, varsCluster, varsNormalize, varsAggregate, varsValidate,
                   varsCalls, varsReconcile>>

\* total_attempts += 1; if download_file(url, destination): successful_downloads += 1
\* The request fails before the file is opened, or while the body is read
\* into the opened file, or the whole body is written.
DownloadFile ==
    /\ mode = "download" /\ dpc = "loop" /\ url_i < Len(changelog_urls)
    /\ download_dir[extract_version_from_url(changelog_urls[url_i + 1])] = "absent"
    /\ total_attempts' = total_attempts + 1
    /\ \E outcome \in {"refused", "broken", "written"} :
          /\ download_dir' =
                 IF outcome = "refused" THEN download_dir
                 ELSE [download_dir EXCEPT
                          ![extract_version_from_url(changelog_urls[url_i + 1])] =
                              IF outcome = "written" THEN "complete" ELSE "partial"]
          /\ successful_downloads' =
                 IF outcome = "written" THEN successful_downloads + 1
                 ELSE successful_downloads
    /\ url_i' = url_i + 1
    /\ UNCHANGED <<mode, changelog_urls, dpc, drun, skipped>>
    /\ UNCHANGED <<varsExtract, varsCluster, varsNormalize, varsAggregate, varsValidate,
                   varsCalls, varsReconcile>>

\* The loop is over: the summary is printed and main returns.
FinishMain ==
    /\ mode = "download" /\ dpc = "loop" /\ url_i = Len(changelog_urls)
    /\ dpc' = "done"
    /\ UNCHANGED <<mode, changelog_urls, download_dir, url_i, drun, total_attempts,
                   successful_downloads, skipped>>
    /\ UNCHANGED <<varsExtract, varsCluster, varsNormalize, varsAggregate, varsValidate,
                   varsCalls, varsReconcile>>

SpecDownload ==
    InitDownload /\ [][StartMain \/ SkipExisting \/ UrlNotAccessible \/ DownloadFile
                          \/ FinishMain]_vars

(***************************************************************************)
(* The two scripts of the reconciliation pipeline, each run twice on the   *)
(* same input.                                                             *)
(***************************************************************************)
SpecPipeline == (InitCluster \/ InitExtract) /\ [][NextCluster \/ NextExtract]_vars

(***************************************************************************)
(* Properties.                                                             *)
(***************************************************************************)
RECURSIVE SumCounts(_)
SumCounts(data) ==
    IF data = <<>> THEN 0 ELSE Head(data).feature_count + SumCounts(Tail(data))

\* The input rows that were not discarded: those that added a link.
KeptRows == {i \in DOMAIN rows : RowLink(rows[i]).link}

\* C1: once extract_companies_developers has written its table, no two rows
\* share the same (company, developer) pair, every row has feature_count >= 1,
\* and the feature counts add up to the number of rows that were not discarded.
C1_OneRowPerPairCountsAddUp ==
    (mode = "extract" /\ epc = "done") =>
        /\ \A i, j \in DOMAIN csv_data :
               i # j => <<csv_data[i].company, csv_data[i].developer>>
                            # <<csv_data[j].company, csv_data[j].developer>>
        /\ \A i \in DOMAIN csv_data : csv_data[i].feature_count >= 1
        /\ SumCounts(csv_data) = Cardinality(KeptRows)

\* Two rows of the input were reconciled into one row of the table, with count 2.
C1_Witness ==
    /\ mode = "extract" /\ epc = "done"
    /\ \E i \in DOMAIN csv_data : csv_data[i].feature_count = 2

\* C2: the pair (company "North Road", developer "Alessandro Pasotti") is never
\* in the reconciled mapping, whatever form the record takes.
C2_DenylistedPairNeverLinked ==
    <<<<"N", "o", "r", "t", "h", " ", "R", "o", "a", "d">>, <<"A", "l", "e", "s", "s", "a", "n", "d", "r", "o", " ", "P", "a", "s", "o", "t", "t", "i">>>> \notin DOMAIN company_developer_features

\* The collaboration separators the claim names.
ClaimedSeparator(text) ==
    \E sep \in {<<" ", "&", " ">>, <<" ", "a", "n", "d", " ">>, <<",", " ">>, <<" ", "w", "i", "t", "h", " ">>} : Contains(text, sep)

\* C3 (as amended): a row whose developed_by, once trimmed of surrounding
\* whitespace, contains a collaboration separator adds no link and no count.
C3_TrimmedCollaborationAddsNothing ==
    [][(/\ mode = "extract" /\ epc = "read" /\ row_i < Len(rows)
        /\ ClaimedSeparator(Strip(rows[row_i + 1]))
        /\ row_i' = row_i + 1)
       => UNCHANGED <<company_developers, company_developer_features>>]_vars

\* C3 (as claimed): a row whose developed_by contains a collaboration
\* separator adds no link and no count.
C3_CollaborationAddsNothing ==
    [][(/\ mode = "extract" /\ epc = "read" /\ row_i < Len(rows)
        /\ ClaimedSeparator(rows[row_i + 1])
        /\ row_i' = row_i + 1)
       => UNCHANGED <<company_developers, company_developer_features>>]_vars

\* A row with a separator was processed after a row that added a link.
C3_Witness ==
    /\ mode = "extract" /\ epc = "read" /\ row_i = 2
    /\ ClaimedSeparator(Strip(rows[2]))
    /\ DOMAIN company_developer_features # {}

\* The canonical name of a name under the mapping find_fuzzy_clusters returns.
Canonical(n) == IF n \in DOMAIN name_mapping THEN name_mapping[n] ELSE n

\* The case-insensitive similarity of a and b is at least t.
SimilarityAtLeast(a, b, t) ==
    200 * Lcs(Lower(a), Lower(b)) >= t * (Len(a) + Len(b))

Position(n) == CHOOSE i \in DOMAIN unique_names : unique_names[i] = n

\* n was put in the cluster of a seed that comes before position i.
AssignedBefore(n, i) ==
    \E k \in DOMAIN cluster_log :
        n \in cluster_log[k].members /\ Position(cluster_log[k].seed) < i

\* Two names below the threshold share a canonical only through a third name.
MergedOnlyWhenLinked ==
    \A i, j \in DOMAIN unique_names :
        (/\ i # j
         /\ Canonical(unique_names[i]) = Canonical(unique_names[j])
         /\ ~SimilarityAtLeast(unique_names[i], unique_names[j], threshold))
        => \E k \in DOMAIN unique_names \ {i, j} :
               /\ SimilarityAtLeast(unique_names[k], unique_names[i], threshold)
               /\ SimilarityAtLeast(unique_names[k], unique_names[j], threshold)

\* C4 (as amended): a seed (a name not assigned when its turn comes) and every
\* name not yet assigned then whose similarity to the seed is >= threshold get
\* the same canonical; names below the threshold are merged only through a
\* third name similar to both.
C4_SeedNeighboursShareCanonical ==
    (mode = "cluster" /\ cpc = "done") =>
        /\ \A i, j \in DOMAIN unique_names :
               (/\ i < j
                /\ SimilarityAtLeast(unique_names[i], unique_names[j], threshold)
                /\ ~AssignedBefore(unique_names[i], i)
                /\ ~AssignedBefore(unique_names[j], i))
               => Canonical(unique_names[i]) = Canonical(unique_names[j])
        /\ MergedOnlyWhenLinked

\* C4 (as claimed): any two unique names whose similarity is >= threshold get
\* the same canonical; names below the threshold are merged only through a
\* third name.
C4_SimilarNamesShareCanonical ==
    (mode = "cluster" /\ cpc = "done") =>
        /\ \A i, j \in DOMAIN unique_names :
               (i # j /\ SimilarityAtLeast(unique_names[i], unique_names[j], threshold))
               => Canonical(unique_names[i]) = Canonical(unique_names[j])
        /\ MergedOnlyWhenLinked

\* Two names whose similarity is exactly the threshold were merged.
C4_Witness ==
    /\ mode = "cluster" /\ cpc = "done"
    /\ \E i, j \in DOMAIN unique_names :
           /\ i < j
           /\ 200 * Lcs(Lower(unique_names[i]), Lower(unique_names[j]))
                  = threshold * (Len(unique_names[i]) + Len(unique_names[j]))
           /\ Canonical(unique_names[i]) = Canonical(unique_names[j])

\* C5: the canonical of every cluster has the highest count among its members,
\* and among the members with that count it is the first seen in the input.
C5_CanonicalIsMostFrequentFirstSeen ==
    \A k \in DOMAIN cluster_log :
        \A m \in cluster_log[k].members :
            /\ name_counts[cluster_log[k].canonical] >= name_counts[m]
            /\ name_counts[m] = name_counts[cluster_log[k].canonical]
                   => Position(cluster_log[k].canonical) <= Position(m)

\* C6: the clusters are disjoint, every alias is mapped to the canonical of
\* its one cluster, no canonical is itself an alias, and applying the mapping
\* twice equals applying it once.
C6_ClustersDisjoint ==
    mode = "cluster" =>
        /\ \A k, l \in DOMAIN cluster_log :
               k # l => cluster_log[k].members \cap cluster_log[l].members = {}
        /\ \A k \in DOMAIN cluster_log :
               \A m \in cluster_log[k].members : Canonical(m) = cluster_log[k].canonical
        /\ \A n \in DOMAIN name_mapping : name_mapping[n] \notin DOMAIN name_mapping
        /\ \A i \in DOMAIN unique_names :
               Canonical(Canonical(unique_names[i])) = Canonical(unique_names[i])

\* A cluster was built, and a name left out of it is similar to one of its members.
C6_Witness ==
    /\ mode = "cluster" /\ cpc = "done" /\ Len(cluster_log) = 1
    /\ \E i \in DOMAIN unique_names :
           /\ unique_names[i] \notin cluster_log[1].members
           /\ \E m \in cluster_log[1].members :
                  SimilarityAtLeast(unique_names[i], m, threshold)

\* A rule of normalize_developer_name decides the result for this name: the
\* early return, an organization short-circuit, the empty-name rule or a
\* person rule.
FiresRule(name) ==
    \/ name = EmptyStr \/ name = NotSpecified
    \/ OrganizationRule(name) # NoRule
    \/ StrippedName(name) = EmptyStr
    \/ MatchedRule(StrippedName(name)) # NoRule

\* C7 (as amended): the canonical name a rule of the table returns is
\* returned unchanged when it is normalized again.
C7_RuleResultsAreFixedPoints ==
    (mode = "normalize" /\ npc = "twice" /\ FiresRule(nd_name)) => nd_again = nd_out

\* C7 (as claimed): normalize(normalize(x)) = normalize(x) for every input x.
C7_NormalizeIdempotent ==
    (mode = "normalize" /\ npc = "twice") => nd_again = nd_out

\* An alias was rewritten to its canonical name and normalized again.
C7_Witness ==
    /\ mode = "normalize" /\ npc = "twice"
    /\ nd_name = <<"N", "y", "a", "l", "l">> /\ nd_out = <<"N", "y", "a", "l", "l", " ", "D", "a", "w", "s", "o", "n">>

\* The person name of a name of ParentheticalNames.
PersonOf(name) == IF StartsWith(name, SomeName) THEN SomeName ELSE <<"N", "y", "a", "l", "l", " ", "D", "a", "w", "s", "o", "n">>

\* C8: a trailing parenthetical naming an affiliation of the exact set is
\* stripped and the person name returned.
C8_ParentheticalStripped ==
    (mode = "normalize" /\ npc # "start" /\ nd_name \in ParentheticalNames)
        => nd_out = PersonOf(nd_name)

\* C9: every alias of the docstring is normalized to its documented canonical
\* full name.
C9_DocumentedAliasesResolve ==
    (mode = "normalize" /\ npc # "start") =>
        \A kv \in documented_aliases : nd_name = kv[1] => nd_out = kv[2]

\* The alias with the OSLANDIA prefix was normalized.
C9_Witness ==
    /\ mode = "normalize" /\ npc = "once"
    /\ nd_name = <<"O", "S", "L", "A", "N", "D", "I", "A", " ", "-", " ", "P", "a", "u", "l">> /\ nd_out = <<"P", "a", "u", "l", " ", "B", "l", "o", "t", "t", "i", "e", "r", "e">>

\* C10: a second run on the same input, with the same threshold, returns the
\* same mapping and emits the same rows in the same order, whatever the order
\* in which the sets are iterated.
C10_SameOutputOnEveryRun ==
    /\ (mode = "cluster" /\ cpc = "done" /\ crun = 2) => name_mapping = prev_mapping
    /\ (mode = "extract" /\ epc = "done" /\ erun = 2) => csv_data = prev_csv

\* The second run emitted two developers of one company.
C10_Witness ==
    /\ mode = "extract" /\ epc = "done" /\ erun = 2
    /\ Len(csv_data) = 2 /\ csv_data[1].company = csv_data[2].company

(***************************************************************************)
(* validate_mappings: the buckets                                          *)
(***************************************************************************)
\* bucket[company], empty when the company has no entry.
BucketEntries(bucket, company) ==
    IF company \in DOMAIN bucket THEN bucket[company] ELSE <<>>

\* The entries of a developer in bucket[company].
EntriesOf(bucket, company, dev) ==
    {i \in DOMAIN BucketEntries(bucket, company) : BucketEntries(bucket, company)[i].dev = dev}

\* The names of a roster.
RosterNames(company) ==
    {reference_teams[company][k] : k \in DOMAIN reference_teams[company]}

\* The greatest of a non-empty set of scores.
GreatestScore(scores) == CHOOSE p \in scores : \A q \in scores : ~ScoreLess(p, q)

\* The three similarity metrics between a developer and a roster name.
ThreeMetrics(dev, ref_name) ==
    {Ratio(Lower(dev), Lower(ref_name)), PartialRatio(Lower(dev), Lower(ref_name)),
     TokenSortRatio(Lower(dev), Lower(ref_name))}

\* The maximum over the roster of the maximum of the three metrics, 0 for an
\* empty roster.
BestRosterScore(dev, roster) ==
    GreatestScore({Score(0, 1)} \cup UNION {ThreeMetrics(dev, r) : r \in roster})

\* C11: once validate_mappings has classified the links, every link is in
\* exactly one of validated, suggestions and not_in_reference; with a roster,
\* a developer equal to a roster name is validated with score 100, otherwise
\* it is suggested with a roster name that attains the best score when the
\* maximum over the roster of max(ratio, partial ratio, token-sort ratio) is
\* >= 85, otherwise it is in not_in_reference with that best score.  "Ann Le"
\* with "Ann Lee" in the roster is suggested.
C11_EveryLinkInOneBucket ==
    (mode = "validate" /\ vpc = "done") =>
        \A r \in DOMAIN mapping_csv.rows :
            LET company == mapping_csv.rows[r].company
                dev == mapping_csv.rows[r].developer
                v == EntriesOf(validated, company, dev)
                s == EntriesOf(suggestions, company, dev)
                n == EntriesOf(not_in_reference, company, dev)
            IN  /\ Cardinality(v) + Cardinality(s) + Cardinality(n) = 1
                /\ company \in DOMAIN reference_teams =>
                      LET roster == RosterNames(company)
                          best == BestRosterScore(dev, roster)
                      IN  /\ dev \in roster =>
                                \E i \in v : validated[company][i].score = Score(100, 1)
                          /\ (dev \notin roster /\ ScoreAtLeast(best, match_threshold)) =>
                                \E i \in s :
                                    /\ suggestions[company][i].match \in roster
                                    /\ best \in ThreeMetrics(dev, suggestions[company][i].match)
                                    /\ suggestions[company][i].score = best
                          /\ (dev \notin roster /\ ~ScoreAtLeast(best, match_threshold)) =>
                                \E i \in n :
                                    /\ not_in_reference[company][i].note = "Best match score"
                                    /\ not_in_reference[company][i].score = best
                          /\ (dev = <<"A", "n", "n", " ", "L", "e">> /\ <<"A", "n", "n", " ", "L", "e", "e">> \in roster) => s # {}

\* C11 witness: the report is written with a developer suggested on the
\* partial ratio alone (its plain ratio is below 85), one validated and one
\* in not_in_reference with its best score.
C11_Witness ==
    /\ mode = "validate" /\ vpc = "done"
    /\ \E i \in DOMAIN BucketEntries(suggestions, <<"K", "a", "r", "t", "o", "z", "a">>) :
           /\ suggestions[<<"K", "a", "r", "t", "o", "z", "a">>][i].dev = <<"A", "n", "n", " ", "L">>
           /\ suggestions[<<"K", "a", "r", "t", "o", "z", "a">>][i].match = <<"A", "n", "n", " ", "L", "e", "e">>
           /\ ~ScoreAtLeast(Ratio(Lower(<<"A", "n", "n", " ", "L">>), Lower(<<"A", "n", "n", " ", "L", "e", "e">>)), match_threshold)
    /\ \E i \in DOMAIN BucketEntries(validated, <<"K", "a", "r", "t", "o", "z", "a">>) :
           validated[<<"K", "a", "r", "t", "o", "z", "a">>][i].dev = <<"A", "n", "n", " ", "L", "e", "e">>

\* C12: a company with no roster file, or with a roster that holds no name,
\* has every link in not_in_reference with the note "No reference data".
C12_NoRosterMeansNoReferenceData ==
    (mode = "validate" /\ vpc = "done") =>
        \A r \in DOMAIN mapping_csv.rows :
            LET company == mapping_csv.rows[r].company
                dev == mapping_csv.rows[r].developer
                file == IF company \in DOMAIN team_files THEN team_files[company] ELSE NoFile
            IN  (~file.exists \/ \A k \in DOMAIN file.names : Strip(file.names[k]) = EmptyStr) =>
                    \E i \in EntriesOf(not_in_reference, company, dev) :
                        not_in_reference[company][i].note = "No reference data"

\* C13: when validate_mappings is over, every name of every roster is in
\* missing_from_mapping exactly when no developer linked to the company has
\* a plain ratio >= 90 with it, the companies without a link included.
C13_RosterGapIffNotCovered ==
    (mode = "validate" /\ vpc \in {"done", "returned"}) =>
        \A company \in DOMAIN reference_teams :
            \A ref_name \in RosterNames(company) :
                LET linked == {mapping_csv.rows[r].developer :
                                  r \in {q \in DOMAIN mapping_csv.rows :
                                            mapping_csv.rows[q].company = company}}
                    missing == BucketEntries(missing_from_mapping, company)
                IN  (\E k \in DOMAIN missing : missing[k] = ref_name)
                        <=> ~\E d \in linked :
                                ScoreAtLeast(Ratio(Lower(ref_name), Lower(d)), reverse_threshold)

(***************************************************************************)
(* aggregate_data                                                          *)
(***************************************************************************)
\* The links of the input table of a company, of a developer.
LinksOfCompany(company) == SelectSeq(input_csv.rows, LAMBDA row : row.company = company)
LinksOfDeveloper(developer) == SelectSeq(input_csv.rows, LAMBDA row : row.developer = developer)

\* avg, in hundredths, is total / count to the nearest hundredth.
IsAverage(avg, total, count) ==
    /\ 2 * (100 * total - avg * count) <= count
    /\ 2 * (avg * count - 100 * total) <= count

\* C14: once both tables are written, each company of the input has one row
\* with total_developers the number of its links, total_features the sum of
\* their feature counts and the average total / developers; each developer
\* has one row with the sum over all of its links and the set of all of its
\* companies; when the summary is written a developer is listed as
\* multi-company exactly when that set has more than one company.
C14_TotalsPerCompanyAndDeveloper ==
    (mode = "aggregate" /\ apc \in {"developers_written", "done", "ZeroDivisionError"}) =>
        /\ \A r \in DOMAIN input_csv.rows :
               LET company == input_csv.rows[r].company
                   developer == input_csv.rows[r].developer
                   links == LinksOfCompany(company)
                   devlinks == LinksOfDeveloper(developer)
                   crows == {i \in DOMAIN companies_aggregated :
                                companies_aggregated[i].company = company}
                   drows == {i \in DOMAIN top_developers :
                                top_developers[i].developer = developer}
               IN  /\ Cardinality(crows) = 1
                   /\ \A i \in crows :
                          /\ companies_aggregated[i].total_developers = Len(links)
                          /\ companies_aggregated[i].total_features = SumCounts(links)
                          /\ IsAverage(companies_aggregated[i].avg_features_per_dev,
                                       SumCounts(links), Len(links))
                   /\ Cardinality(drows) = 1
                   /\ \A i \in drows :
                          /\ top_developers[i].total_features = SumCounts(devlinks)
                          /\ {top_developers[i].companies[k] :
                                 k \in DOMAIN top_developers[i].companies}
                                 = {devlinks[k].company : k \in DOMAIN devlinks}
                          /\ top_developers[i].companies_count
                                 = Cardinality({devlinks[k].company : k \in DOMAIN devlinks})
                   /\ apc = "done" =>
                          ((\E k \in DOMAIN multi_company : multi_company[k] = developer)
                              <=> Cardinality({devlinks[k].company : k \in DOMAIN devlinks}) > 1)
        /\ Len(companies_aggregated)
               = Cardinality({input_csv.rows[r].company : r \in DOMAIN input_csv.rows})
        /\ Len(top_developers)
               = Cardinality({input_csv.rows[r].developer : r \in DOMAIN input_csv.rows})

\* C14 witness: the summary is written for a table in which a company has two
\* developers with an odd total and a developer has two companies.
C14_Witness ==
    /\ mode = "aggregate" /\ apc = "done"
    /\ \E i \in DOMAIN companies_aggregated :
           /\ companies_aggregated[i].total_developers = 2
           /\ companies_aggregated[i].total_features = 3
           /\ companies_aggregated[i].avg_features_per_dev = 150
    /\ multi_company # <<>>
    /\ \E i \in DOMAIN top_developers : top_developers[i].companies_count = 2

\* C15: aggregate_data never fails on a division by zero: on an input with no
\* link record it completes.
C15_NoDivisionByZero ==
    mode = "aggregate" => apc # "ZeroDivisionError"

\* seq is ordered by the metric descending, equal metrics by name ascending.
RankedByMetricThenName(seq, metric) ==
    \A i \in DOMAIN seq : \A j \in DOMAIN seq :
        i < j => \/ metric[seq[i]] > metric[seq[j]]
                 \/ metric[seq[i]] = metric[seq[j]] /\ StrLess(seq[i], seq[j])

\* C16: every ranking of the summary (companies by total features, companies
\* by developer count, developers by total features) and the table of top
\* developers is ordered by the metric descending, ties by name ascending.
C16_RankingsBreakTiesByName ==
    (mode = "aggregate" /\ apc = "done") =>
        /\ RankedByMetricThenName(sorted_companies, TotalFeatures(companies))
        /\ RankedByMetricThenName(sorted_by_devs,
                                  [c \in DOMAIN companies |-> Len(companies[c].developers)])
        /\ RankedByMetricThenName(sorted_devs, TotalFeatures(developer_totals))
        /\ RankedByMetricThenName([i \in DOMAIN top_developers |-> top_developers[i].developer],
                                  TotalFeatures(developer_totals))

(***************************************************************************)
(* normalize_developer_name: the rule table                                *)
(***************************************************************************)
\* C17: normalize_developer_name never returns an empty string, and returns
\* "Not specified" for every input that is empty once the parentheticals, the
\* "OSLANDIA - " prefix and the collaboration clause are stripped, the empty
\* input included.
C17_EmptyGivesNotSpecified ==
    (mode = "normalize" /\ npc # "start") =>
        /\ nd_out # EmptyStr
        /\ StrippedName(nd_name) = EmptyStr => nd_out = NotSpecified

\* The raw name holds an organization keyword.
HasKeyword(name, keyword) == Contains(Lower(name), keyword)

\* A rule placed before the lutra rule matches the stripped name.
BeforeLutraRule(name_lower) ==
    \/ name_lower = <<"n", "o", "r", "t", "h", " ", "r", "o", "a", "d">>
    \/ Contains(name_lower, <<"j", "e", "f", "-", "n">>)
    \/ Contains(name_lower, <<"j", "u", "e", "r", "g", "e", "n">>) \/ Contains(name_lower, <<"j", "U+00FC", "r", "g", "e", "n">>)

rule_canonical == <<
    <<"N", "y", "a", "l", "l", " ", "D", "a", "w", "s", "o", "n">>, <<"J", "U+00FC", "r", "g", "e", "n", " ", "F", "i", "s", "c", "h", "e", "r">>, <<"J", "U+00FC", "r", "g", "e", "n", " ", "F", "i", "s", "c", "h", "e", "r">>, <<"L", "u", "t", "r", "a", " ", "C", "o", "n", "s", "u", "l", "t", "i", "n", "g">>,
    <<"D", "e", "n", "i", "s", " ", "R", "o", "u", "z", "a", "u", "d">>, <<"U+00C9", "t", "i", "e", "n", "n", "e", " ", "T", "r", "i", "m", "a", "i", "l", "l", "e">>, <<"M", "a", "t", "t", "e", "o", " ", "G", "h", "e", "t", "t", "a">>, <<"A", "n", "d", "r", "e", "a", " ", "G", "i", "u", "d", "i", "c", "e", "a", "n", "d", "r", "e", "a">>,
    <<"I", "s", "m", "a", "i", "l", " ", "S", "u", "n", "n", "i">>, <<"N", "a", "t", "h", "a", "n", " ", "W", "o", "o", "d", "r", "o", "w">>, <<"M", "a", "r", "c", "o", " ", "B", "e", "r", "n", "a", "s", "o", "c", "c", "h", "i">>, <<"S", "a", "l", "v", "a", "t", "o", "r", "e", " ", "L", "a", "r", "o", "s", "a">>,
    <<"N", "y", "a", "l", "l", " ", "D", "a", "w", "s", "o", "n">>, <<"M", "a", "t", "h", "i", "e", "u", " ", "P", "e", "l", "l", "e", "r", "i", "n">>, <<"A", "l", "e", "s", "s", "a", "n", "d", "r", "o", " ", "P", "a", "s", "o", "t", "t", "i">>, <<"A", "l", "e", "x", "a", "n", "d", "e", "r", " ", "B", "r", "u", "y">>,
    <<"E", "v", "e", "n", " ", "R", "o", "u", "a", "u", "l", "t">>, <<"L", "o", "U+00EF", "c", " ", "B", "a", "r", "t", "o", "l", "e", "t", "t", "i">>, <<"M", "a", "r", "t", "i", "n", " ", "D", "o", "b", "i", "a", "s">>, <<"M", "a", "t", "t", "h", "i", "a", "s", " ", "K", "u", "h", "n">>,
    <<"J", "u", "l", "i", "e", "n", " ", "C", "a", "b", "i", "e", "c", "e", "s">>, <<"P", "a", "u", "l", " ", "B", "l", "o", "t", "t", "i", "e", "r", "e">>, <<"S", "a", "n", "d", "r", "o", " ", "S", "a", "n", "t", "i", "l", "l", "i">> >>

\* The predicate of rule k of the chain on the lowercased stripped name.
RuleFires(k, n) ==
    CASE k = 1 -> n = <<"n", "o", "r", "t", "h", " ", "r", "o", "a", "d">>
      [] k = 2 -> Contains(n, <<"j", "e", "f", "-", "n">>)
      [] k = 3 -> Contains(n, <<"j", "u", "e", "r", "g", "e", "n">>) \/ Contains(n, <<"j", "U+00FC", "r", "g", "e", "n">>)
      [] k = 4 -> Contains(n, <<"l", "u", "t", "r", "a">>)
      [] k = 5 -> StartsWith(n, <<"d", "e", "n", "i", "s">>)
      [] k = 6 -> StartsWith(n, <<"e", "t", "i", "e", "n", "n", "e">>) \/ StartsWith(n, <<"U+00E9", "t", "i", "e", "n", "n", "e">>)
      [] k = 7 -> StartsWith(n, <<"m", "a", "t", "t", "e", "o">>) /\ (Contains(n, <<"g", "h", "e", "t", "t", "a">>) \/ n = <<"m", "a", "t", "t", "e", "o">>)
      [] k = 8 -> FirstNameRule(n, <<"a", "n", "d", "r", "e", "a">>, <<"g", "i", "u", "d", "i", "c", "e", "a", "n", "d", "r", "e", "a">>)
      [] k = 9 -> FirstNameRule(n, <<"i", "s", "m", "a", "i", "l">>, <<"s", "u", "n", "n", "i">>)
      [] k = 10 -> FirstNameRule(n, <<"n", "a", "t", "h", "a", "n">>, <<"w", "o", "o", "d", "r", "o", "w">>)
      [] k = 11 -> FirstNameRule(n, <<"m", "a", "r", "c", "o">>, <<"b", "e", "r", "n", "a", "s", "o", "c", "c", "h", "i">>)
      [] k = 12 -> FirstNameRule(n, <<"s", "a", "l", "v", "a", "t", "o", "r", "e">>, <<"l", "a", "r", "o", "s", "a">>)
      [] k = 13 -> Contains(n, <<"n", "y", "a", "l", "l">>)
      [] k = 14 -> Contains(n, <<"m", "a", "t", "h", "i", "e", "u">>)
      [] k = 15 -> StartsWith(n, <<"a", "l", "e", "s", "s", "a", "n", "d", "r", "o">>)
                       \/ (Contains(n, <<"a", "l", "e", "s", "s", "a", "n", "d", "r", "o">>) /\ Contains(n, <<"p", "a", "s", "o", "t", "t", "i">>))
      [] k = 16 -> n = <<"a", "l", "e", "x", "a", "n", "d", "e", "r">> \/ (StartsWith(n, <<"a", "l", "e", "x">>) /\ Contains(n, <<"b", "r", "u", "y">>))
      [] k = 17 -> FirstNameRule(n, <<"e", "v", "e", "n">>, <<"r", "o", "u", "a", "u", "l", "t">>)
      [] k = 18 -> Contains(n, <<"l", "o", "U+00EF", "c">>) \/ Contains(n, <<"l", "o", "i", "c">>)
      [] k = 19 -> FirstNameRule(n, <<"m", "a", "r", "t", "i", "n">>, <<"d", "o", "b", "i", "a", "s">>)
      [] k = 20 -> FirstNameRule(n, <<"m", "a", "t", "t", "h", "i", "a", "s">>, <<"k", "u", "h", "n">>)
      [] k = 21 -> FirstNameRule(n, <<"j", "u", "l", "i", "e", "n">>, <<"c", "a", "b", "i", "e", "c", "e", "s">>)
      [] k = 22 -> n = <<"p", "a", "u", "l">> \/ (Contains(n, <<"p", "a", "u">>) /\ Contains(n, <<"b", "l", "o", "t", "t", "i", "e", "r", "e">>))
      [] k = 23 -> FirstNameRule(n, <<"s", "a", "n", "d", "r", "o">>, <<"s", "a", "n", "t", "i", "l", "l", "i">>)

\* The rules that match the stripped name.
FiredRules(name) ==
    {k \in DOMAIN rule_canonical : RuleFires(k, Lower(StrippedName(name)))}

\* The name reaches the chain of rules: no early return, no short-circuit.
ReachesRules(name) ==
    /\ name \notin {EmptyStr, NotSpecified}
    /\ ~HasKeyword(name, <<"o", "p", "e", "n", "g", "i", "s">>) /\ ~HasKeyword(name, <<"k", "a", "r", "t", "o", "z", "a">>)
    /\ StrippedName(name) # EmptyStr

\* The order of the rules as documented: Nyall, Mathieu, Alessandro,
\* Alexander/Alex, Even, Loic, Martin, Matthias, Julien, Paul/Pau, Sandro,
\* Salvatore, Denis, Etienne, Andrea, Ismail, Nathan, Matteo, Marco,
\* jef-n/Juergen, as indexes of rule_canonical.
documented_order ==
    <<13, 14, 15, 16, 17, 18, 19, 20, 21, 22, 23, 12, 5, 6, 8, 9, 10, 7, 11, 2, 3>>

\* C19 (as amended): the rules are evaluated in the order North Road, jef-n,
\* Juergen, Lutra, Denis, Etienne, Matteo, Andrea, Ismail, Nathan, Marco,
\* Salvatore, Nyall, Mathieu, Alessandro, Alexander, Even, Loic, Martin,
\* Matthias, Julien, Paul/Pau, Sandro, and the first that matches wins: a
\* name that satisfies two rules gets the canonical of the earlier one in
\* this order ("Denis Nyall" gives "Denis Rouzaud").
C19_FirstRuleInCodeOrderWins ==
    (mode = "normalize" /\ npc # "start" /\ ReachesRules(nd_name)) =>
        /\ FiredRules(nd_name) # {} => nd_out = rule_canonical[Min(FiredRules(nd_name))]
        /\ nd_name = <<"D", "e", "n", "i", "s", " ", "N", "y", "a", "l", "l">> => nd_out = <<"D", "e", "n", "i", "s", " ", "R", "o", "u", "z", "a", "u", "d">>

\* C19 (as claimed): a name that satisfies rules of the documented list gets
\* the canonical of the one that comes first in the documented order.
C19_FirstRuleInDocumentedOrderWins ==
    (mode = "normalize" /\ npc # "start" /\ ReachesRules(nd_name)
        /\ ~RuleFires(1, Lower(StrippedName(nd_name)))
        /\ ~RuleFires(4, Lower(StrippedName(nd_name)))) =>
        LET fired == {i \in DOMAIN documented_order :
                         documented_order[i] \in FiredRules(nd_name)}
        IN  fired # {} => nd_out = rule_canonical[documented_order[Min(fired)]]

\* C19 witness: a name that satisfies the Denis and the Nyall rules was
\* normalized by the Denis rule.
C19_Witness ==
    /\ mode = "normalize" /\ npc = "once"
    /\ {5, 13} \subseteq FiredRules(nd_name)
    /\ nd_out = <<"D", "e", "n", "i", "s", " ", "R", "o", "u", "z", "a", "u", "d">>

\* The first names, the canonical surname and the aliases of each person.
person_modes == {
    [canonical |-> <<"N", "y", "a", "l", "l", " ", "D", "a", "w", "s", "o", "n">>, first |-> {<<"n", "y", "a", "l", "l">>}, surname |-> <<"d", "a", "w", "s", "o", "n">>,
     alias |-> {<<"n", "o", "r", "t", "h", " ", "r", "o", "a", "d">>}],
    [canonical |-> <<"M", "a", "t", "h", "i", "e", "u", " ", "P", "e", "l", "l", "e", "r", "i", "n">>, first |-> {<<"m", "a", "t", "h", "i", "e", "u">>}, surname |-> <<"p", "e", "l", "l", "e", "r", "i", "n">>,
     alias |-> {}],
    [canonical |-> <<"A", "l", "e", "s", "s", "a", "n", "d", "r", "o", " ", "P", "a", "s", "o", "t", "t", "i">>, first |-> {<<"a", "l", "e", "s", "s", "a", "n", "d", "r", "o">>}, surname |-> <<"p", "a", "s", "o", "t", "t", "i">>,
     alias |-> {}],
    [canonical |-> <<"A", "l", "e", "x", "a", "n", "d", "e", "r", " ", "B", "r", "u", "y">>, first |-> {<<"a", "l", "e", "x", "a", "n", "d", "e", "r">>, <<"a", "l", "e", "x">>}, surname |-> <<"b", "r", "u", "y">>,
     alias |-> {<<"a", "l", "e", "x", " ", "b", "r", "u", "y">>}],
    [canonical |-> <<"E", "v", "e", "n", " ", "R", "o", "u", "a", "u", "l", "t">>, first |-> {<<"e", "v", "e", "n">>}, surname |-> <<"r", "o", "u", "a", "u", "l", "t">>, alias |-> {}],
    [canonical |-> <<"L", "o", "U+00EF", "c", " ", "B", "a", "r", "t", "o", "l", "e", "t", "t", "i">>, first |-> {<<"l", "o", "U+00EF", "c">>, <<"l", "o", "i", "c">>}, surname |-> <<"b", "a", "r", "t", "o", "l", "e", "t", "t", "i">>,
     alias |-> {}],
    [canonical |-> <<"M", "a", "r", "t", "i", "n", " ", "D", "o", "b", "i", "a", "s">>, first |-> {<<"m", "a", "r", "t", "i", "n">>}, surname |-> <<"d", "o", "b", "i", "a", "s">>, alias |-> {}],
    [canonical |-> <<"M", "a", "t", "t", "h", "i", "a", "s", " ", "K", "u", "h", "n">>, first |-> {<<"m", "a", "t", "t", "h", "i", "a", "s">>}, surname |-> <<"k", "u", "h", "n">>, alias |-> {}],
    [canonical |-> <<"J", "u", "l", "i", "e", "n", " ", "C", "a", "b", "i", "e", "c", "e", "s">>, first |-> {<<"j", "u", "l", "i", "e", "n">>}, surname |-> <<"c", "a", "b", "i", "e", "c", "e", "s">>,
     alias |-> {}],
    [canonical |-> <<"P", "a", "u", "l", " ", "B", "l", "o", "t", "t", "i", "e", "r", "e">>, first |-> {<<"p", "a", "u", "l">>, <<"p", "a", "u">>}, surname |-> <<"b", "l", "o", "t", "t", "i", "e", "r", "e">>,
     alias |-> {<<"p", "a", "u", " ", "b", "l", "o", "t", "t", "i", "e", "r", "e">>}],
    [canonical |-> <<"S", "a", "n", "d", "r", "o", " ", "S", "a", "n", "t", "i", "l", "l", "i">>, first |-> {<<"s", "a", "n", "d", "r", "o">>}, surname |-> <<"s", "a", "n", "t", "i", "l", "l", "i">>,
     alias |-> {}],
    [canonical |-> <<"S", "a", "l", "v", "a", "t", "o", "r", "e", " ", "L", "a", "r", "o", "s", "a">>, first |-> {<<"s", "a", "l", "v", "a", "t", "o", "r", "e">>}, surname |-> <<"l", "a", "r", "o", "s", "a">>,
     alias |-> {}],
    [canonical |-> <<"D", "e", "n", "i", "s", " ", "R", "o", "u", "z", "a", "u", "d">>, first |-> {<<"d", "e", "n", "i", "s">>}, surname |-> <<"r", "o", "u", "z", "a", "u", "d">>, alias |-> {}],
    [canonical |-> <<"U+00C9", "t", "i", "e", "n", "n", "e", " ", "T", "r", "i", "m", "a", "i", "l", "l", "e">>, first |-> {<<"e", "t", "i", "e", "n", "n", "e">>, <<"U+00E9", "t", "i", "e", "n", "n", "e">>},
     surname |-> <<"t", "r", "i", "m", "a", "i", "l", "l", "e">>, alias |-> {}],
    [canonical |-> <<"A", "n", "d", "r", "e", "a", " ", "G", "i", "u", "d", "i", "c", "e", "a", "n", "d", "r", "e", "a">>, first |-> {<<"a", "n", "d", "r", "e", "a">>}, surname |-> <<"g", "i", "u", "d", "i", "c", "e", "a", "n", "d", "r", "e", "a">>,
     alias |-> {}],
    [canonical |-> <<"I", "s", "m", "a", "i", "l", " ", "S", "u", "n", "n", "i">>, first |-> {<<"i", "s", "m", "a", "i", "l">>}, surname |-> <<"s", "u", "n", "n", "i">>, alias |-> {}],
    [canonical |-> <<"N", "a", "t", "h", "a", "n", " ", "W", "o", "o", "d", "r", "o", "w">>, first |-> {<<"n", "a", "t", "h", "a", "n">>}, surname |-> <<"w", "o", "o", "d", "r", "o", "w">>, alias |-> {}],
    [canonical |-> <<"M", "a", "t", "t", "e", "o", " ", "G", "h", "e", "t", "t", "a">>, first |-> {<<"m", "a", "t", "t", "e", "o">>}, surname |-> <<"g", "h", "e", "t", "t", "a">>, alias |-> {}],
    [canonical |-> <<"M", "a", "r", "c", "o", " ", "B", "e", "r", "n", "a", "s", "o", "c", "c", "h", "i">>, first |-> {<<"m", "a", "r", "c", "o">>}, surname |-> <<"b", "e", "r", "n", "a", "s", "o", "c", "c", "h", "i">>,
     alias |-> {}],
    [canonical |-> <<"J", "U+00FC", "r", "g", "e", "n", " ", "F", "i", "s", "c", "h", "e", "r">>, first |-> {<<"j", "u", "e", "r", "g", "e", "n">>, <<"j", "U+00FC", "r", "g", "e", "n">>}, surname |-> <<"f", "i", "s", "c", "h", "e", "r">>,
     alias |-> {<<"j", "e", "f", "-", "n">>}]
}

\* The name matches a person under mode (a), (b) or (c).
MatchesUnderModes(n, p) ==
    \/ n \in p.alias
    \/ \E f \in p.first : StartsWith(n, f) /\ ~Contains(n, p.surname) /\ IsSingleToken(n)
    \/ \E f \in p.first : Contains(n, f) /\ Contains(n, p.surname)

\* C20: a name is normalized to the canonical name of a person only when it
\* equals an alias of the person, or starts with the first name, does not
\* contain the surname and is a single token, or contains both the first
\* name and the surname; the first name of a rule followed by another
\* surname is not rewritten.
C20_RulesFireOnlyUnderThreeModes ==
    (mode = "normalize" /\ npc # "start" /\ ReachesRules(nd_name)) =>
        \A p \in person_modes :
            nd_out = p.canonical => MatchesUnderModes(Lower(StrippedName(nd_name)), p)

(***************************************************************************)
(* extract_companies_developers: bare company names                        *)
(***************************************************************************)
\* The record has the form "Company / Developer": two parts around " / ",
\* the left one a company name.
IsCompanySlashDeveloper(text) ==
    /\ Contains(text, <<" ", "/", " ">>)
    /\ SplitParts(text, <<" ", "/", " ">>).n = 2
    /\ is_company_name(SplitParts(text, <<" ", "/", " ">>).first)

\* The record is only a company name: it matches the keyword test, has no
\* parenthesis and does not name a developer after " / ".
IsOnlyCompanyName(text) ==
    /\ is_company_name(text)
    /\ ~Contains(text, <<"(">>)
    /\ ~IsCompanySlashDeveloper(text)

MappingValues == {name_mapping[n] : n \in DOMAIN name_mapping}

\* C23: in the mapping find_fuzzy_clusters returns no key maps to itself, a
\* name with no other name at similarity >= threshold is neither a key nor a
\* value, and every alias has similarity >= threshold to the seed of its
\* cluster.
C23_OnlyAliasingPairs ==
    (mode = "cluster" /\ cpc = "done") =>
        /\ \A n \in DOMAIN name_mapping : name_mapping[n] # n
        /\ \A i \in DOMAIN unique_names :
               (\A j \in DOMAIN unique_names \ {i} :
                    ~SimilarityAtLeast(unique_names[i], unique_names[j], threshold))
               => unique_names[i] \notin (DOMAIN name_mapping) \cup MappingValues
        /\ \A n \in DOMAIN name_mapping :
               \E k \in DOMAIN cluster_log :
                   /\ n \in cluster_log[k].members
                   /\ name_mapping[n] = cluster_log[k].canonical
                   /\ SimilarityAtLeast(n, cluster_log[k].seed, threshold)

\* C23 witness: a mapping with an alias was returned for names of which one
\* is similar to no other and is left out of the mapping.
C23_Witness ==
    /\ mode = "cluster" /\ cpc = "done"
    /\ DOMAIN name_mapping # {}
    /\ \E i \in DOMAIN unique_names :
           /\ \A j \in DOMAIN unique_names \ {i} :
                  ~SimilarityAtLeast(unique_names[i], unique_names[j], threshold)
           /\ unique_names[i] \notin (DOMAIN name_mapping) \cup MappingValues

(***************************************************************************)
(* validate_mappings: matched roster names and roster gaps                 *)
(***************************************************************************)
\* C29: a roster name that is the name of a validated link or the suggested
\* name of a suggested link of a company is not in missing_from_mapping for
\* that company.
C29_MatchedNameIsNotMissing ==
    (mode = "validate" /\ vpc = "done") =>
        \A company \in DOMAIN missing_from_mapping :
            \A k \in DOMAIN missing_from_mapping[company] :
                /\ \A i \in DOMAIN BucketEntries(validated, company) :
                       validated[company][i].dev # missing_from_mapping[company][k]
                /\ \A i \in DOMAIN BucketEntries(suggestions, company) :
                       suggestions[company][i].match # missing_from_mapping[company][k]

(***************************************************************************)
(* Disambiguation of "A (B)", company table, the two normalizer copies     *)
(***************************************************************************)
\* The organization keywords of the parser's keyword test.
organization_keywords ==
    {<<"l", "u", "t", "r", "a">>, <<"o", "p", "e", "n", "g", "i", "s">>, <<"o", "s", "l", "a", "n", "d", "i", "a">>, <<"k", "a", "r", "t", "o", "z", "a">>, <<"n", "o", "r", "t", "h", " ", "r", "o", "a", "d">>, <<"f", "a", "u", "n", "a", "l", "i", "a">>,
     <<"q", "c", "o", "o", "p", "e", "r", "a", "t", "i", "v", "e">>, <<"s", "p", "a", "t", "i", "a", "l", "y", "s">>, <<"3", "l", "i", "z">>, <<"q", "g", "i", "s">>, <<"c", "o", "n", "s", "u", "l", "t", "i", "n", "g">>, <<"g", "m", "b", "h">>, <<"s", "a", "r", "l">>}

ContainsKeyword(half) == \E kw \in organization_keywords : Contains(Lower(half), kw)

\* The halves A and B of the called text when it has the form "A (B)".
HalfA == Strip(SearchNameParen(call_text).g1)
HalfB == Strip(SearchNameParen(call_text).g2)

Disambiguated == mode = "calls" /\ "disambiguate" \in calls_done /\ call_text \in ParenRecords

\* C21: for a record "A (B)", the half that contains an organization keyword
\* is the company and the other half the person name, and with no keyword in
\* either half A is the name and B the company, both in the result of
\* extract_developer_name and in the link of extract_companies_developers.
C21_KeywordHalfIsTheCompany ==
    Disambiguated /\ ~(ContainsKeyword(HalfA) /\ ContainsKeyword(HalfB)) =>
        LET name_half == IF ContainsKeyword(HalfA) THEN HalfB ELSE HalfA
            company_half == IF ContainsKeyword(HalfA) THEN HalfA ELSE HalfB
        IN  /\ person_out = name_half
            /\ link_out = [link |-> TRUE,
                           company |-> normalize_company_name(company_half),
                           dev |-> NormalizedDeveloper(name_half)]

\* C26: for every record "A (B)" that gives a link, the half that
\* extract_developer_name returns as the person name is the half that
\* extract_companies_developers records as the developer of the link.
C26_SameHalfInBothImplementations ==
    Disambiguated /\ link_out.link =>
        \E half \in {HalfA, HalfB} :
            person_out = half /\ link_out.dev = NormalizedDeveloper(half)

\* The form of a company name that is looked up in the table.
KeyForm(s) == Strip(SubBold(SubAtSuffix(SubParenContent(Strip(Lower(s))))))

TableKeys == {kv[1] : kv \in company_mappings}
TableValues == {kv[2] : kv \in company_mappings}

\* C25: an input whose trimmed, lowercased form without parenthetical
\* content, @-suffix and markdown bold is a key of the table gives the
\* canonical value of that key; any other input is returned in its casing
\* with whitespace and markdown-bold cleanup only; every canonical value of
\* the table is returned as it is.
C25_TableFirstThenCleanup ==
    mode = "calls" /\ "company" \in calls_done =>
        /\ KeyForm(call_text) \in TableKeys /\ call_text \notin {EmptyStr, NotSpecified} =>
               <<KeyForm(call_text), company_out>> \in company_mappings
        /\ KeyForm(call_text) \notin TableKeys =>
               company_out = SubSpaces(SubBold(Strip(call_text)))
        /\ call_text \in TableValues => company_out = call_text

\* A name in another casing than its key has been given its canonical value.
C25_Witness ==
    /\ mode = "calls" /\ "company" \in calls_done
    /\ call_text = <<"K", "A", "R", "T", "O", "Z", "A">> /\ company_out = <<"K", "a", "r", "t", "o", "z", "a">>

\* C27: the two copies of normalize_developer_name have the same list of
\* parenthetical patterns in the same order and return the same result for
\* every input.
C27_CopiesAgree ==
    mode = "calls" /\ "normalize" \in calls_done =>
        /\ features_out = zips_out
        /\ zips_patterns_to_remove = patterns_to_remove

\* Both copies have removed the parenthetical (North) and returned the name.
C27_Witness ==
    /\ mode = "calls" /\ "normalize" \in calls_done
    /\ call_text = <<"S", "o", "m", "e", " ", "N", "a", "m", "e", " ", "(", "N", "o", "r", "t", "h", ")">>
    /\ features_out = <<"S", "o", "m", "e", " ", "N", "a", "m", "e">> /\ zips_out = <<"S", "o", "m", "e", " ", "N", "a", "m", "e">>

(***************************************************************************)
(* Rows through normalize_developers                                       *)
(***************************************************************************)
Reconciled == mode = "reconcile" /\ rpc = "saved"

\* A developed_by text with a collaboration separator.
IsCollaboration(text) == \E sep \in {<<" ", "&", " ">>, <<" ", "a", "n", "d", " ">>, <<",", " ">>, <<" ", "w", "i", "t", "h", " ">>} : Contains(text, sep)

\* C24: a row whose developed_by contains a collaboration separator is saved
\* with its raw text, and extract_companies_developers makes no link of it.
C24_CollaborationKeepsRawText ==
    Reconciled =>
        \A i \in DOMAIN raw_rows.rows :
            IsCollaboration(raw_rows.rows[i]) =>
                /\ out_rows[i] = raw_rows.rows[i]
                /\ ~RowLink(out_rows[i]).link

\* The company an original "A (B)" names: the half that is not its person name.
OriginalCompany(original) ==
    LET match == SearchNameParen(Strip(StripChars(original, {"\""})))
    IN  IF extract_developer_name(original) = Strip(match.g1)
        THEN Strip(match.g2) ELSE Strip(match.g1)

\* C28: a row whose clean name is a key of the fuzzy mapping and whose
\* original has the form "A (B)" is saved as the canonical developer with the
\* company the original named; a row whose clean name is not a key is saved
\* unchanged.
C28_RewriteKeepsOriginalCompany ==
    Reconciled =>
        \A i \in DOMAIN raw_rows.rows :
            LET original == raw_rows.rows[i]
                clean_name == CleanNameOf(original)
            IN  IF clean_name \in DOMAIN fuzzy_mapping
                THEN SearchNameParen(original).matched =>
                         out_rows[i] = fuzzy_mapping[clean_name] \o <<" ", "(">>
                                           \o OriginalCompany(original) \o <<")">>
                ELSE out_rows[i] = original

(***************************************************************************)
(* Runs of the downloader                                                  *)
(***************************************************************************)
\* C30: across the runs of main, a URL is skipped as already existing only
\* when its destination file is the result of a download that completed, and
\* successful_downloads <= total_attempts and
\* skipped + total_attempts <= number of URLs.
C30_SkippedFileIsACompleteDownload ==
    /\ [](mode = "download" =>
              /\ successful_downloads <= total_attempts
              /\ skipped + total_attempts <= Len(changelog_urls))
    /\ [][skipped' = skipped + 1 =>
              download_dir[extract_version_from_url(changelog_urls[url_i + 1])] = "complete"]_vars
====
